---- MODULE Spec2Model ----
(***************************************************************************)
(* Day-by-day portfolio simulation of the stock selection strategy.        *)
(*                                                                         *)
(* The repository holds two simulators:                                    *)
(*   - class BacktestEngine  (supabase/functions/backtest-engine/index.ts) *)
(*   - runRealBacktest       (supabase/functions/stock-api-real/index.ts)  *)
(* A run picks one of them at construction (variable impl) and both are    *)
(* stepped by the same actions, each action branching on impl where the    *)
(* two sources differ.                                                     *)
(*                                                                         *)
(* Units.  JavaScript numbers are modelled by exact integers:              *)
(*   money            in fen (0.01 yuan)                                   *)
(*   price            in whole yuan                                        *)
(*   pct_chg, turnover_rate, volume_ratio   in tenths                      *)
(*   chip_concentration, profit_ratio       in thousandths                 *)
(*   stopLoss, takeProfit                   in percent                     *)
(*   a ratio (return, drawdown)             as a record [num, den];        *)
(*                                          den = 0 is JavaScript's NaN    *)
(*                                          (0/0) or Infinity (x/0)        *)
(***************************************************************************)
EXTENDS Integers, Sequences, FiniteSets, TLC

\* Number of calendar dates of the requested [startDate, endDate] range.
MaxDays == 3

\* Instrument codes (the first two of generateMockHistoricalData's list).
Stocks == {"000001.SZ", "000002.SZ"}

Engine == "BacktestEngine"
Real == "runRealBacktest"

\* `amount * 0.0003` of executeBuyOrder / executeSellOrder, in 1/10000.
CommissionBp == 3

\* `Math.floor(positionValue / stock.price / 100) * 100`: shares per lot.
LotSize == 100

\* `max_position_per_stock: 0.2` of runRealBacktest's params, in percent.
MaxPositionPerStockPct == 20

\* `Math.min(tradeDates.length, 50)` of runRealBacktest's day loop.
DayLimit == 50

---------------------------------------------------------------------------
(* Market data: one record per instrument and date.  The record carries    *)
(* the fields of BacktestEngine's StockData and of getStockData's merged   *)
(* record; each simulator reads its own.                                   *)

\* qualifies in both screeners, close 10
KindQ ==
    [price |-> 10, pct_chg |-> 50, turnover_rate |-> 60, volume_ratio |-> 20,
     market_cap |-> 100, chip_concentration |-> 700, profit_ratio |-> 600,
     circ_mv |-> 500000, amount |-> 200000, st |-> FALSE, industry |-> "electronics"]

\* qualifies in both screeners, close 12 (+20% on 10)
KindU ==
    [price |-> 12, pct_chg |-> 99, turnover_rate |-> 90, volume_ratio |-> 25,
     market_cap |-> 120, chip_concentration |-> 700, profit_ratio |-> 650,
     circ_mv |-> 600000, amount |-> 300000, st |-> FALSE, industry |-> "electronics"]

\* close 9 (-10% on 10), falling on low volume
KindD ==
    [price |-> 9, pct_chg |-> -100, turnover_rate |-> 10, volume_ratio |-> 4,
     market_cap |-> 90, chip_concentration |-> 300, profit_ratio |-> 200,
     circ_mv |-> 450000, amount |-> 50000, st |-> FALSE, industry |-> "electronics"]

\* close 10, pct_chg -6 on volume ratio 0.4: technical deterioration only
KindT ==
    [price |-> 10, pct_chg |-> -60, turnover_rate |-> 10, volume_ratio |-> 4,
     market_cap |-> 100, chip_concentration |-> 300, profit_ratio |-> 400,
     circ_mv |-> 500000, amount |-> 50000, st |-> FALSE, industry |-> "other"]

\* close 10, unchanged
KindF ==
    [price |-> 10, pct_chg |-> 0, turnover_rate |-> 10, volume_ratio |-> 10,
     market_cap |-> 100, chip_concentration |-> 500, profit_ratio |-> 500,
     circ_mv |-> 500000, amount |-> 50000, st |-> FALSE, industry |-> "other"]

Kinds == {KindQ, KindU, KindD, KindT, KindF}

\* every filtered field exactly at its configured threshold
KindEdge ==
    [price |-> 100, pct_chg |-> 30, turnover_rate |-> 20, volume_ratio |-> 15,
     market_cap |-> 500, chip_concentration |-> 600, profit_ratio |-> 500,
     circ_mv |-> 1000000, amount |-> 200000, st |-> FALSE, industry |-> "electronics"]

\* KindQ, but close 101: above maxStockPrice
KindDear == [KindQ EXCEPT !.price = 101]

\* KindQ, but turnover rate 1.9: below minTurnoverRate
KindThin == [KindQ EXCEPT !.turnover_rate = 19]

\* A record that lacks field f (the provider sent null or nothing for it).
Without(k, f) == [g \in (DOMAIN k) \ f |-> k[g]]

\* KindQ with no turnover rate
KindNoTurnover == Without(KindQ, {"turnover_rate"})

\* KindQ with no market capitalisation (market_cap in 1e8 yuan, circ_mv in
\* 1e4 yuan: one datum of the provider)
KindNoMarketCap == Without(KindQ, {"market_cap", "circ_mv"})

BoundaryKinds ==
    {KindQ, KindEdge, KindDear, KindThin, KindNoTurnover, KindNoMarketCap}

Bar(code, k) == [stock_code |-> code] @@ k

\* Sequences of distinct instrument codes: the order of a day's records.
CodeSeqs ==
    {cs \in UNION {[1..n -> Stocks] : n \in 0..Cardinality(Stocks)} :
        \A a, b \in DOMAIN cs : a # b => cs[a] # cs[b]}

\* What the market-data provider can return for one date.
DayDatas ==
    UNION {{[j \in DOMAIN cs |-> Bar(cs[j], ks[j])] : ks \in [DOMAIN cs -> Kinds]} :
              cs \in CodeSeqs}

\* The same over the boundary and incomplete records.
BoundaryDatas ==
    UNION {{[j \in DOMAIN cs |-> Bar(cs[j], ks[j])] :
                ks \in [DOMAIN cs -> BoundaryKinds]} : cs \in CodeSeqs}

---------------------------------------------------------------------------
(* Configuration (BacktestConfig / strategyParams).  `days` is the number   *)
(* of calendar dates from startDate to endDate.                            *)

Configs ==
    {[days |-> MaxDays,
      initialCapital |-> 10000000,
      maxPositions |-> mp,
      stopLoss |-> 10,
      takeProfit |-> 20,
      holdingDays |-> <<1, 2>>,
      maxMarketCap |-> 500,
      minTurnoverRate |-> 20,
      minVolumeRatio |-> 15,
      minDailyGain |-> 30,
      maxStockPrice |-> 100,
      chipConcentrationThreshold |-> 600,
      profitRatioThreshold |-> 500] : mp \in {1, 2}}

---------------------------------------------------------------------------
VARIABLES
    impl,              \* which simulator runs
    config,            \* this.config / params
    dataSource,        \* which data set the market-data provider serves
    pc,                \* position in runBacktest / runRealBacktest
    date,              \* the calendar date being processed (0 before the first)
    dayData,           \* the records of the current date
    cash,              \* portfolio.cash
    positions,         \* portfolio.positions, in insertion order
    totalValue,        \* portfolio.totalValue / portfolio.total_value
    max_value,         \* portfolio.max_value (runRealBacktest only)
    trades,            \* this.trades / portfolio.trades
    dailyPerformance,  \* this.dailyPerformance / portfolio.daily_values
    i,                 \* loop index of checkExitSignals (BacktestEngine)
    exitQueue,         \* Object.entries(portfolio.positions) still to visit
    candidates,        \* the screener's output of the current date
    selected,          \* candidates of the buy loop still to visit
    maxNewPositions,   \* maxPositions - positions.length at the entry step
    tradeCount,        \* tradeCount of runRealBacktest
    winCount,          \* winCount of runRealBacktest
    metrics,           \* calculateFinalMetrics' result / result of the run
    stored,            \* the backtest_results row written by saveBacktestResults
    savedTrades,       \* the rows of table backtest_trades
    savedPerformance,  \* the rows of table backtest_daily_performance
    response,          \* what the request handler answered
    tape,              \* the records the provider holds per date (<<>>: any)
    other,             \* the run suspended at an await while this one steps
    form,              \* the settings form: its five weights and weightSum
    previous,          \* the result of an earlier run with this configuration
    estimate,          \* a call of the heuristic estimator: inputs and result
    chipDistribution,  \* the cost-basis estimator's distribution and last step
    lastClose,         \* history: latest close seen per instrument (0: none)
    everCandidate      \* history: some record passed the hard filters

vars ==
    <<impl, config, dataSource, pc, date, dayData, cash, positions, totalValue, max_value,
      trades, dailyPerformance, i, exitQueue, candidates, selected,
      maxNewPositions, tradeCount, winCount, metrics, stored, savedTrades,
      savedPerformance, response, tape, other, form, previous, estimate,
      chipDistribution,
      lastClose,
      everCandidate>>

\* backtestId of the run, and of an earlier run whose rows are in the tables.
RunId == "backtest_X"
OtherRunId == "backtest_Y"

OtherRunTrades ==
    <<[backtest_id |-> OtherRunId, action |-> "buy", stock_code |-> "000002.SZ",
       price |-> 10, quantity |-> 100, trade_date |-> 1]>>

OtherRunPerformance ==
    <<[backtest_id |-> OtherRunId, trade_date |-> 1, portfolio_value |-> 10000000]>>

NoMetrics == [status |-> "running"]

\* No earlier run; no estimator call.
NoRun == [ran |-> FALSE]
NoOther == [active |-> FALSE]
NoForm == [loaded |-> FALSE]
NoEstimate == [called |-> FALSE]
NoDistribution == [seeded |-> FALSE]

\* The state a run starts in, given its configuration.
Constructed ==
    /\ pc = "day"
    /\ date = 0
    /\ dayData = <<>>
    /\ cash = config.initialCapital
    /\ positions = <<>>
    /\ totalValue = config.initialCapital
    /\ max_value = config.initialCapital
    /\ trades = <<>>
    /\ dailyPerformance = <<>>
    /\ i = 0
    /\ exitQueue = <<>>
    /\ candidates = <<>>
    /\ selected = <<>>
    /\ maxNewPositions = 0
    /\ tradeCount = 0
    /\ winCount = 0
    /\ metrics = NoMetrics
    /\ stored = [status |-> "running"]
    /\ savedTrades = OtherRunTrades
    /\ savedPerformance = OtherRunPerformance
    /\ response = [status |-> "pending"]
    /\ tape = <<>>
    /\ other = NoOther
    /\ form = NoForm
    /\ previous = NoRun
    /\ estimate = NoEstimate
    /\ chipDistribution = NoDistribution
    /\ lastClose = [c \in Stocks |-> 0]
    /\ everCandidate = FALSE

Init ==
    /\ impl \in {Engine, Real}
    /\ config \in Configs
    /\ dataSource = "market"
    /\ Constructed

\* Two-date runs over the boundary and incomplete records.
BoundaryConfigs == {[c EXCEPT !.days = 2] : c \in Configs}

InitBoundary ==
    /\ impl \in {Engine, Real}
    /\ config \in BoundaryConfigs
    /\ dataSource = "boundary"
    /\ Constructed

---------------------------------------------------------------------------
(* Helpers.                                                                *)

Min(a, b) == IF a <= b THEN a ELSE b
Max(a, b) == IF a >= b THEN a ELSE b

\* Array.prototype.slice(0, n)
Slice(s, n) ==
    IF n >= 0 THEN SubSeq(s, 1, Min(n, Len(s)))
    ELSE SubSeq(s, 1, Max(0, Len(s) + n))

\* Array.prototype.splice(k, 1)
Splice(s, k) == [j \in 1..(Len(s) - 1) |-> IF j < k THEN s[j] ELSE s[j + 1]]

\* new Map(dayData.map(d => [d.stock_code, d])) / currentPrices:
\* the day's record of an instrument; a later record of the same code wins.
HasBar(data, code) == \E j \in DOMAIN data : data[j].stock_code = code

BarOf(data, code) ==
    data[CHOOSE j \in DOMAIN data :
            /\ data[j].stock_code = code
            /\ \A k \in DOMAIN data : data[k].stock_code = code => k <= j]

HeldCodes(ps) == {ps[j].stock_code : j \in DOMAIN ps}

\* calculateCumulativeReturn: (totalValue - initialCapital) / initialCapital
calculateCumulativeReturn(tv, cfg) ==
    [num |-> tv - cfg.initialCapital, den |-> cfg.initialCapital]

\* calculateHoldingDays: whole calendar days between the two dates
calculateHoldingDays(entryDate, currentDate) == currentDate - entryDate

---------------------------------------------------------------------------
(* Candidate screener and scorer.                                          *)

\* Stable sort of records by descending field `score` (Array.prototype.sort
\* with the comparator (a, b) => b.score - a.score keeps ties in input order).
RECURSIVE InsertDesc(_, _)
InsertDesc(sorted, x) ==
    IF sorted = <<>> THEN <<x>>
    ELSE IF Head(sorted).score >= x.score
         THEN <<Head(sorted)>> \o InsertDesc(Tail(sorted), x)
         ELSE <<x>> \o sorted

RECURSIVE SortDesc(_)
SortDesc(s) ==
    IF s = <<>> THEN <<>>
    ELSE InsertDesc(SortDesc(SubSeq(s, 1, Len(s) - 1)), s[Len(s)])

\* A field the object lacks reads as `undefined`, and `<`, `>`, `<=`, `>=`
\* with undefined on either side are false.
JsLess(a, f, b, g) == f \in DOMAIN a /\ g \in DOMAIN b /\ a[f] < b[g]
JsGreater(a, f, b, g) == f \in DOMAIN a /\ g \in DOMAIN b /\ a[f] > b[g]

\* BacktestEngine.calculateStockScore, in thousandths.
calculateStockScore(stock) ==
    Min(stock.pct_chg * 200, 20000)
    + (IF stock.volume_ratio > 20 THEN 15000
       ELSE IF stock.volume_ratio > 15 THEN 10000 ELSE 0)
    + (IF /\ "turnover_rate" \in DOMAIN stock
          /\ stock.turnover_rate > 50 /\ stock.turnover_rate < 150
       THEN 10000 ELSE 0)
    + stock.chip_concentration * 20
    + (IF stock.profit_ratio > 600 THEN 15000
       ELSE IF stock.profit_ratio > 500 THEN 10000 ELSE 0)

\* The filter of BacktestEngine.screenStocks without its last test.
EngineHardFilters(stock, cfg) ==
    /\ ~JsGreater(stock, "price", cfg, "maxStockPrice")
    /\ ~JsGreater(stock, "market_cap", cfg, "maxMarketCap")
    /\ ~JsLess(stock, "turnover_rate", cfg, "minTurnoverRate")
    /\ ~JsLess(stock, "volume_ratio", cfg, "minVolumeRatio")
    /\ ~JsLess(stock, "pct_chg", cfg, "minDailyGain")
    /\ ~JsLess(stock, "chip_concentration", cfg, "chipConcentrationThreshold")
    /\ ~JsLess(stock, "profit_ratio", cfg, "profitRatioThreshold")

\* BacktestEngine.screenStocks
screenStocks(data, ps, cfg) ==
    LET filtered ==
            SelectSeq(data, LAMBDA stock :
                /\ EngineHardFilters(stock, cfg)
                /\ ~(stock.stock_code \in HeldCodes(ps)))
        scored ==
            [j \in DOMAIN filtered |->
                filtered[j] @@ [score |-> calculateStockScore(filtered[j])]]
    IN  SortDesc(scored)

\* calculateImprovedChipConcentration (stock-api-real): the pair
\* <<concentration in 1/400000, profit ratio in 1/600>>.
calculateImprovedChipConcentration(stock) ==
    LET turnoverRate == IF stock.turnover_rate = 0 THEN 50 ELSE stock.turnover_rate
        volumeRatio == IF stock.volume_ratio = 0 THEN 10 ELSE stock.volume_ratio
        pctChg == stock.pct_chg
        dist == IF turnoverRate >= 80 THEN turnoverRate - 80 ELSE 80 - turnoverRate
        turnoverFactor == Max(60, Min(240, 200 - dist))
        volumeFactor == Min(130, Max(70, 80 + volumeRatio))
        priceFactor ==
            IF pctChg >= 20 /\ pctChg <= 80 THEN 11
            ELSE IF pctChg > 90 THEN 12
            ELSE IF pctChg < -30 THEN 9
            ELSE 10
        concentration ==
            Max(80000, Min(380000, turnoverFactor * volumeFactor * priceFactor))
        profitRatio ==
            Max(60, Min(540,
                300 + (IF pctChg > 0 THEN Min(180, 2 * pctChg)
                       ELSE Max(-180, 3 * pctChg))))
    IN  <<concentration, profitRatio>>

\* generateRealisticChipMetrics without its two closing clamps.
generateRealisticChipMetricsUnclamped(pctChg, turnoverRate, volumeRatio) ==
    LET dist == IF turnoverRate >= 80 THEN turnoverRate - 80 ELSE 80 - turnoverRate
        turnoverFactor == Max(60, Min(240, 200 - dist))
        volumeFactor == Min(130, Max(70, 80 + volumeRatio))
        priceFactor ==
            IF pctChg >= 20 /\ pctChg <= 80 THEN 11
            ELSE IF pctChg > 90 THEN 12
            ELSE IF pctChg < -30 THEN 9
            ELSE 10
        byChange ==
            IF pctChg > 0
            THEN IF pctChg <= 30 THEN 30 * pctChg
                 ELSE IF pctChg <= 70 THEN 900 + 15 * (pctChg - 30)
                 ELSE 1500 + Min(900, 10 * (pctChg - 70))
            ELSE Max(-1800, 40 * pctChg)
        decayFactor ==
            IF turnoverRate > 100 THEN Min(600, 6 * (turnoverRate - 100)) ELSE 0
        volumeBonus ==
            IF volumeRatio > 15 /\ pctChg > 20
            THEN Min(300, 30 * (volumeRatio - 15)) ELSE 0
    IN  <<turnoverFactor * volumeFactor * priceFactor,
          3000 + byChange - decayFactor + volumeBonus>>

\* generateRealisticChipMetrics (backtest-engine and, with the same body,
\* stock-api): the pair <<concentration in 1/400000, profit ratio in 1/6000>>
\* from pctChg, turnoverRate and volumeRatio in tenths.
generateRealisticChipMetrics(pctChg, turnoverRate, volumeRatio) ==
    LET dist == IF turnoverRate >= 80 THEN turnoverRate - 80 ELSE 80 - turnoverRate
        turnoverFactor == Max(60, Min(240, 200 - dist))
        volumeFactor == Min(130, Max(70, 80 + volumeRatio))
        priceFactor ==
            IF pctChg >= 20 /\ pctChg <= 80 THEN 11
            ELSE IF pctChg > 90 THEN 12
            ELSE IF pctChg < -30 THEN 9
            ELSE 10
        concentration ==
            Max(80000, Min(380000, turnoverFactor * volumeFactor * priceFactor))
        byChange ==
            IF pctChg > 0
            THEN IF pctChg <= 30 THEN 30 * pctChg
                 ELSE IF pctChg <= 70 THEN 900 + 15 * (pctChg - 30)
                 ELSE 1500 + Min(900, 10 * (pctChg - 70))
            ELSE Max(-1800, 40 * pctChg)
        decayFactor ==
            IF turnoverRate > 100 THEN Min(600, 6 * (turnoverRate - 100)) ELSE 0
        volumeBonus ==
            IF volumeRatio > 15 /\ pctChg > 20
            THEN Min(300, 30 * (volumeRatio - 15)) ELSE 0
        profitRatio ==
            Max(600, Min(5400, 3000 + byChange - decayFactor + volumeBonus))
    IN  <<concentration, profitRatio>>

\* The merge of getStockData: `parseFloat(item[k] || 0)` (volume_ratio:
\* `|| 1`) puts a default where the provider sent nothing.
MergedDefaults ==
    [price |-> 0, pct_chg |-> 0, amount |-> 0, turnover_rate |-> 0,
     volume_ratio |-> 10, circ_mv |-> 0]

getStockData(items) == [j \in DOMAIN items |-> items[j] @@ MergedDefaults]

\* hotIndustries of runSelectionStrategy (themeScore, 50 when unmapped)
ThemeScore(industry) ==
    CASE industry = "computer" -> 90
      [] industry = "electronics" -> 85
      [] industry = "semiconductor" -> 92
      [] OTHER -> 50

\* The filter of runSelectionStrategy.
RealHardFilters(stock) ==
    /\ stock.circ_mv <= 1000000
    /\ stock.pct_chg >= 30
    /\ stock.amount > 0
    /\ stock.price > 0
    /\ ~stock.st
    /\ stock.turnover_rate >= 30
    /\ stock.volume_ratio >= 12

\* total_score of runSelectionStrategy, in tenths:
\* Math.round(totalScore * 10) / 10, totalScore summed in 1/400000.
TotalScore(stock) ==
    LET volumePriceScore ==
            40 * Min(100, 3 * stock.volume_ratio)
            + Min(3000, 9 * stock.turnover_rate)
            + 30 * Min(100, stock.pct_chg)
        chip == calculateImprovedChipConcentration(stock)[1]
        dragonTigerScore == IF stock.pct_chg >= 70 THEN 40 ELSE 20
        amountScore == Min(1000000, stock.amount)
        totalScore ==
            1200 * volumePriceScore + 25 * chip + 80000 * dragonTigerScore
            + 60000 * ThemeScore(stock.industry) + 4 * amountScore
    IN  (totalScore + 20000) \div 40000

\* runSelectionStrategy: filter, score, sort by total_score, first 30.
runSelectionStrategy(stockData) ==
    IF stockData = <<>> THEN <<>>
    ELSE
        LET filtered == SelectSeq(stockData, RealHardFilters)
            scored ==
                [j \in DOMAIN filtered |->
                    [stock_code |-> filtered[j].stock_code,
                     price |-> filtered[j].price,
                     score |-> TotalScore(filtered[j])]]
        IN  Slice(SortDesc(scored), 30)

---------------------------------------------------------------------------
(* Exit rules, order execution, mark-to-market.                            *)

\* Take-profit tested with > in place of >=.
EngineExitReasonStrict(position, currentData, d, cfg) ==
    LET currentPrice == currentData.price
        returnRate == (currentPrice - position.entry_price) * 100
        holdingDays == calculateHoldingDays(position.entry_date, d)
    IN  IF returnRate <= -cfg.stopLoss * position.entry_price THEN "stop_loss"
        ELSE IF returnRate > cfg.takeProfit * position.entry_price THEN "take_profit"
        ELSE IF holdingDays >= cfg.holdingDays[2] THEN "max_holding"
        ELSE IF currentData.pct_chg < -50 /\ currentData.volume_ratio < 5 THEN "technical"
        ELSE ""

\* Trade reasons of checkExitSignals, in its order of evaluation:
\*   "stop_loss", "take_profit", "max_holding", "technical"; "" is no sale.
EngineExitReason(position, currentData, d, cfg) ==
    LET currentPrice == currentData.price
        \* returnRate * 100 * entry_price
        returnRate == (currentPrice - position.entry_price) * 100
        holdingDays == calculateHoldingDays(position.entry_date, d)
    IN  IF returnRate <= -cfg.stopLoss * position.entry_price THEN "stop_loss"
        ELSE IF returnRate >= cfg.takeProfit * position.entry_price THEN "take_profit"
        ELSE IF holdingDays >= cfg.holdingDays[2] THEN "max_holding"
        ELSE IF currentData.pct_chg < -50 /\ currentData.volume_ratio < 5 THEN "technical"
        ELSE ""

\* `returnRate <= -params.stop_loss || returnRate >= params.take_profit`
RealShouldSell(position, currentPrice, cfg) ==
    LET returnRate == (currentPrice - position.entry_price) * 100
    IN  \/ returnRate <= -cfg.stopLoss * position.entry_price
        \/ returnRate >= cfg.takeProfit * position.entry_price

\* price * quantity, in fen
Amount(price, quantity) == price * quantity * 100

\* amount * 0.0003
Commission(amount) == (amount * CommissionBp) \div 10000

\* executeSellOrder: the sell TradeRecord of a position sold at currentPrice.
EngineSellTrade(position, currentPrice, d, reason, tv, cfg) ==
    LET amount == Amount(currentPrice, position.quantity)
        netAmount == amount - Commission(amount)
    IN  [action |-> "sell",
         stock_code |-> position.stock_code,
         price |-> currentPrice,
         quantity |-> position.quantity,
         amount |-> amount,
         trade_date |-> d,
         trade_reason |-> reason,
         profit_loss |-> netAmount - position.entry_amount,
         cumulative_return |-> calculateCumulativeReturn(tv, cfg),
         portfolio_value |-> tv]

\* The sale credited gross: no commission taken off.
EngineSellProceedsGross(position, currentPrice) ==
    Amount(currentPrice, position.quantity)

\* executeSellOrder: what the sale adds to cash.
EngineSellProceeds(position, currentPrice) ==
    Amount(currentPrice, position.quantity)
    - Commission(Amount(currentPrice, position.quantity))

\* The sell record pushed by runRealBacktest.
RealSellTrade(position, currentPrice, d) ==
    [action |-> "sell",
     stock_code |-> position.stock_code,
     price |-> currentPrice,
     quantity |-> position.quantity,
     trade_date |-> d,
     return_rate |-> [num |-> currentPrice - position.entry_price,
                      den |-> position.entry_price]]

\* Quantity of executeBuySignals:
\* Math.floor(availableCash / (maxNewPositions + positions.length) / price / 100) * 100
EngineQuantity(availableCash, slots, price) ==
    (availableCash \div (slots * price * 10000)) * LotSize

\* executeBuyOrder's test `this.portfolio.cash >= totalCost`
EngineTotalCost(price, quantity) ==
    Amount(price, quantity) + Commission(Amount(price, quantity))

EngineCanBuy(availableCash, price, quantity) ==
    /\ quantity >= LotSize
    /\ availableCash >= EngineTotalCost(price, quantity)

\* runRealBacktest: shares = Math.floor(total_value * 0.2 / close)
RealShares(tv, price) == (tv * MaxPositionPerStockPct) \div (price * 10000)

RealCanBuy(availableCash, tv, price) ==
    /\ availableCash >= (tv * MaxPositionPerStockPct + 99) \div 100
    /\ tv * MaxPositionPerStockPct > 0
    /\ RealShares(tv, price) > 0
    /\ Amount(price, RealShares(tv, price)) <= availableCash

\* portfolio.positions[stock.ts_code] = {...}: an existing key keeps its
\* place in the object's key order and gets the new value.
PutPosition(ps, position) ==
    IF position.stock_code \in HeldCodes(ps)
    THEN [j \in DOMAIN ps |->
            IF ps[j].stock_code = position.stock_code THEN position ELSE ps[j]]
    ELSE Append(ps, position)

\* delete portfolio.positions[tsCode]
DeletePosition(ps, code) == SelectSeq(ps, LAMBDA q : q.stock_code # code)

\* Sum of price * quantity over the positions that have a record today.
RECURSIVE PositionsValue(_, _)
PositionsValue(ps, data) ==
    IF ps = <<>> THEN 0
    ELSE (IF HasBar(data, Head(ps).stock_code)
                /\ BarOf(data, Head(ps).stock_code).price # 0
          THEN Amount(BarOf(data, Head(ps).stock_code).price, Head(ps).quantity)
          ELSE 0)
         + PositionsValue(Tail(ps), data)

\* Cash left out of the total.
updatePortfolioValueNoCash(availableCash, ps, data) == PositionsValue(ps, data)

\* updatePortfolioValue / "portfolioValue = portfolio.cash; for ..."
updatePortfolioValue(availableCash, ps, data) ==
    availableCash + PositionsValue(ps, data)

---------------------------------------------------------------------------
(* The day loop.                                                           *)

\* The loop bound without Math.min(..., 50): every date of the range.
MoreDatesUnlimited == date < config.days

\* Dates the loop may still visit: every date of the range, and at most
\* DayLimit of them in runRealBacktest.
MoreDates ==
    /\ date < config.days
    /\ impl = Real => date < DayLimit

\* The records the provider can return for one date.
ProviderData(source) == IF source = "boundary" THEN BoundaryDatas ELSE DayDatas

\* What the provider returns for the next date of the loop: the tape's
\* records of that date where a tape is given, else any of ProviderData.
NextDateData ==
    IF tape = <<>> THEN ProviderData(dataSource) ELSE {tape[date + 1]}

\* The no-data test forgotten: the date is marked to market and recorded
\* with no record for any instrument.
SkipDayRecorded ==
    /\ pc = "day"
    /\ MoreDates
    /\ <<>> \in NextDateData
    /\ date' = date + 1
    /\ totalValue' = updatePortfolioValue(cash, positions, <<>>)
    /\ dailyPerformance' =
          Append(dailyPerformance,
                 [trade_date |-> date + 1,
                  portfolio_value |-> totalValue',
                  cash_balance |-> cash,
                  positions_count |-> Len(positions)])
    /\ UNCHANGED <<impl, config, dataSource, tape, other, form, previous, estimate, chipDistribution, savedTrades, savedPerformance,
                   response, pc, dayData, cash, positions, max_value,
                   trades, i, exitQueue, candidates, selected, maxNewPositions,
                   tradeCount, winCount, metrics, stored, lastClose,
                   everCandidate>>

\* A date without market data: it is no key of dataByDate (BacktestEngine),
\* or getStockData returns null / [] and the loop continues (runRealBacktest).
SkipDay ==
    /\ pc = "day"
    /\ MoreDates
    /\ <<>> \in NextDateData
    /\ date' = date + 1
    /\ UNCHANGED <<impl, config, dataSource, tape, other, form, previous, estimate, chipDistribution, savedTrades, savedPerformance,
                   response, pc, dayData, cash, positions, totalValue,
                   max_value, trades, dailyPerformance, i, exitQueue,
                   candidates, selected, maxNewPositions, tradeCount, winCount,
                   metrics, stored, lastClose, everCandidate>>

\* The dates taken as Object.keys gives them, unsorted: the next date
\* processed may lie before the last one.
StartDayUnsorted ==
    /\ pc = "day"
    /\ MoreDates
    /\ \E data \in NextDateData \ {<<>>} :
        /\ dayData' = data
        /\ lastClose' =
              [c \in Stocks |->
                  IF HasBar(data, c) THEN BarOf(data, c).price ELSE lastClose[c]]
        /\ everCandidate' =
              (\/ everCandidate
               \/ \E j \in DOMAIN data :
                     IF impl = Engine THEN EngineHardFilters(data[j], config)
                     ELSE RealHardFilters(getStockData(data)[j]))
    /\ date' \in {date + 1} \cup (IF date >= 2 THEN {date - 1} ELSE {})
    /\ pc' = "exit"
    /\ i' = Len(positions)
    /\ exitQueue' = IF impl = Real THEN positions ELSE <<>>
    /\ UNCHANGED <<impl, config, dataSource, tape, other, form, previous, estimate, chipDistribution, savedTrades, savedPerformance,
                   response, cash, positions, totalValue, max_value, trades,
                   dailyPerformance, candidates, selected, maxNewPositions,
                   tradeCount, winCount, metrics, stored>>

\* A date with market data: processDay(date, dataByDate[date]) begins.
StartDay ==
    /\ pc = "day"
    /\ MoreDates
    /\ \E data \in NextDateData \ {<<>>} :
        /\ dayData' = data
        /\ lastClose' =
              [c \in Stocks |->
                  IF HasBar(data, c) THEN BarOf(data, c).price ELSE lastClose[c]]
        /\ everCandidate' =
              (\/ everCandidate
               \/ \E j \in DOMAIN data :
                     IF impl = Engine THEN EngineHardFilters(data[j], config)
                     ELSE RealHardFilters(getStockData(data)[j]))
    /\ date' = date + 1
    /\ pc' = "exit"
    /\ i' = Len(positions)
    /\ exitQueue' = IF impl = Real THEN positions ELSE <<>>
    /\ UNCHANGED <<impl, config, dataSource, tape, other, form, previous, estimate, chipDistribution, savedTrades, savedPerformance,
                   response, cash, positions, totalValue, max_value, trades,
                   dailyPerformance, candidates, selected, maxNewPositions,
                   tradeCount, winCount, metrics, stored>>

\* One iteration of checkExitSignals' loop over positions[i], i descending.
EngineCheckExit ==
    /\ impl = Engine
    /\ pc = "exit"
    /\ i >= 1
    /\ LET position == positions[i]
           reason ==
               IF HasBar(dayData, position.stock_code)
               THEN EngineExitReason(position, BarOf(dayData, position.stock_code),
                                     date, config)
               ELSE ""
           currentPrice == BarOf(dayData, position.stock_code).price
       IN  IF reason # ""
           THEN /\ cash' = cash + EngineSellProceeds(position, currentPrice)
                /\ trades' = Append(trades,
                      EngineSellTrade(position, currentPrice, date, reason,
                                      totalValue, config))
                /\ positions' = Splice(positions, i)
           ELSE UNCHANGED <<cash, trades, positions>>
    /\ i' = i - 1
    /\ UNCHANGED <<impl, config, dataSource, tape, other, form, previous, estimate, chipDistribution, savedTrades, savedPerformance,
                   response, pc, date, dayData, totalValue, max_value,
                   dailyPerformance, exitQueue, candidates, selected,
                   maxNewPositions, tradeCount, winCount, metrics, stored,
                   lastClose, everCandidate>>

\* One iteration of runRealBacktest's loop over Object.entries(positions).
RealCheckExit ==
    /\ impl = Real
    /\ pc = "exit"
    /\ exitQueue # <<>>
    /\ LET position == Head(exitQueue)
           tsCode == position.stock_code
           known == HasBar(dayData, tsCode) /\ BarOf(dayData, tsCode).price # 0
           currentPrice == BarOf(dayData, tsCode).price
       IN  IF known /\ RealShouldSell(position, currentPrice, config)
           THEN /\ cash' = cash + Amount(currentPrice, position.quantity)
                /\ trades' = Append(trades, RealSellTrade(position, currentPrice, date))
                /\ tradeCount' = tradeCount + 1
                /\ winCount' =
                      IF currentPrice > position.entry_price THEN winCount + 1
                      ELSE winCount
                /\ positions' = DeletePosition(positions, tsCode)
           ELSE UNCHANGED <<cash, trades, tradeCount, winCount, positions>>
    /\ exitQueue' = Tail(exitQueue)
    /\ UNCHANGED <<impl, config, dataSource, tape, other, form, previous, estimate, chipDistribution, savedTrades, savedPerformance,
                   response, pc, date, dayData, totalValue, max_value,
                   dailyPerformance, i, candidates, selected, maxNewPositions,
                   metrics, stored, lastClose, everCandidate>>

ExitsDone == IF impl = Engine THEN i = 0 ELSE exitQueue = <<>>

\* The slice forgotten: every candidate goes to the buy loop.
SelectedStocksAll(cands, maxNew) == cands

\* `candidates.slice(0, maxNewPositions)` /
\* `candidates.slice(0, params.max_positions - Object.keys(positions).length)`
SelectedStocks(cands, maxNew) == Slice(cands, maxNew)

\* screenStocks(dayData) and the head of executeBuySignals (BacktestEngine);
\* `if (positions < max_positions) candidates = runSelectionStrategy(...)`
\* and the slice of the buy loop (runRealBacktest).
ScreenStocks ==
    /\ pc = "exit"
    /\ ExitsDone
    /\ maxNewPositions' = config.maxPositions - Len(positions)
    /\ candidates' =
          IF impl = Engine THEN screenStocks(dayData, positions, config)
          ELSE IF Len(positions) < config.maxPositions
               THEN runSelectionStrategy(getStockData(dayData))
               ELSE <<>>
    /\ selected' = SelectedStocks(candidates', maxNewPositions')
    /\ pc' = "buy"
    /\ UNCHANGED <<impl, config, dataSource, tape, other, form, previous, estimate, chipDistribution, savedTrades, savedPerformance,
                   response, date, dayData, cash, positions, totalValue,
                   max_value, trades, dailyPerformance, i, exitQueue,
                   tradeCount, winCount, metrics, stored, lastClose,
                   everCandidate>>

\* One iteration of executeBuySignals' loop, executeBuyOrder included.
EngineBuy ==
    /\ impl = Engine
    /\ pc = "buy"
    /\ selected # <<>>
    /\ LET stock == Head(selected)
           quantity ==
               EngineQuantity(cash, maxNewPositions + Len(positions), stock.price)
       IN  IF EngineCanBuy(cash, stock.price, quantity)
           THEN /\ cash' = cash - EngineTotalCost(stock.price, quantity)
                /\ positions' = Append(positions,
                      [stock_code |-> stock.stock_code,
                       entry_date |-> date,
                       entry_price |-> stock.price,
                       quantity |-> quantity,
                       entry_amount |-> EngineTotalCost(stock.price, quantity)])
                /\ trades' = Append(trades,
                      [action |-> "buy",
                       stock_code |-> stock.stock_code,
                       price |-> stock.price,
                       quantity |-> quantity,
                       amount |-> Amount(stock.price, quantity),
                       trade_date |-> date,
                       cumulative_return |->
                           calculateCumulativeReturn(totalValue, config),
                       portfolio_value |-> totalValue])
           ELSE UNCHANGED <<cash, positions, trades>>
    /\ selected' = Tail(selected)
    /\ UNCHANGED <<impl, config, dataSource, tape, other, form, previous, estimate, chipDistribution, savedTrades, savedPerformance,
                   response, pc, date, dayData, totalValue, max_value,
                   dailyPerformance, i, exitQueue, candidates, maxNewPositions,
                   tradeCount, winCount, metrics, stored, lastClose,
                   everCandidate>>

\* One iteration of runRealBacktest's buy loop.
RealBuy ==
    /\ impl = Real
    /\ pc = "buy"
    /\ selected # <<>>
    /\ LET stock == Head(selected)
           shares == RealShares(totalValue, stock.price)
       IN  IF RealCanBuy(cash, totalValue, stock.price)
           THEN /\ cash' = cash - Amount(stock.price, shares)
                /\ positions' = PutPosition(positions,
                      [stock_code |-> stock.stock_code,
                       entry_date |-> date,
                       entry_price |-> stock.price,
                       quantity |-> shares])
                /\ trades' = Append(trades,
                      [action |-> "buy",
                       stock_code |-> stock.stock_code,
                       price |-> stock.price,
                       quantity |-> shares,
                       trade_date |-> date])
           ELSE UNCHANGED <<cash, positions, trades>>
    /\ selected' = Tail(selected)
    /\ UNCHANGED <<impl, config, dataSource, tape, other, form, previous, estimate, chipDistribution, savedTrades, savedPerformance,
                   response, pc, date, dayData, totalValue, max_value,
                   dailyPerformance, i, exitQueue, candidates, maxNewPositions,
                   tradeCount, winCount, metrics, stored, lastClose,
                   everCandidate>>

\* updatePortfolioValue(date, dayData) (BacktestEngine);
\* `portfolio.total_value = portfolioValue` and the max_value update
\* (runRealBacktest).
UpdatePortfolioValue ==
    /\ pc = "buy"
    /\ selected = <<>>
    /\ totalValue' = updatePortfolioValue(cash, positions, dayData)
    /\ max_value' =
          IF impl = Real /\ totalValue' > max_value THEN totalValue' ELSE max_value
    /\ pc' = "record"
    /\ UNCHANGED <<impl, config, dataSource, tape, other, form, previous, estimate, chipDistribution, savedTrades, savedPerformance,
                   response, date, dayData, cash, positions, trades,
                   dailyPerformance, i, exitQueue, candidates, selected,
                   maxNewPositions, tradeCount, winCount, metrics, stored,
                   lastClose, everCandidate>>

---------------------------------------------------------------------------
(* Daily snapshot and final metrics.                                       *)

RECURSIVE MaxOf(_, _)
MaxOf(s, floor) == IF s = <<>> THEN floor ELSE MaxOf(Tail(s), Max(floor, Head(s)))

RECURSIVE MinOf(_, _)
MinOf(s, ceil) == IF s = <<>> THEN ceil ELSE MinOf(Tail(s), Min(ceil, Head(s)))

RECURSIVE SumOf(_)
SumOf(s) == IF s = <<>> THEN 0 ELSE Head(s) + SumOf(Tail(s))

\* a/b < c/d for a, c >= 0 and b, d > 0, without forming a*d and c*b
RECURSIVE RatLess(_, _, _, _)
RatLess(a, b, c, d) ==
    IF a \div b # c \div d THEN a \div b < c \div d
    ELSE IF c % d = 0 THEN FALSE
    ELSE IF a % b = 0 THEN TRUE
    ELSE RatLess(d, c % d, b, a % b)

\* calculateDrawdown: 0 before the first snapshot, else
\* (maxValue - currentValue) / maxValue over the recorded values and the current
calculateDrawdown(perf, currentValue) ==
    IF perf = <<>> THEN [num |-> 0, den |-> 1]
    ELSE
        LET maxValue ==
                MaxOf([j \in DOMAIN perf |-> perf[j].portfolio_value], currentValue)
        IN  [num |-> maxValue - currentValue, den |-> maxValue]

\* The record pushed by recordDailyPerformance.
EngineDailyRecord(d, tv, availableCash, ps, perf, cfg) ==
    [trade_date |-> d,
     portfolio_value |-> tv,
     daily_return |-> [num |-> tv - cfg.initialCapital, den |-> cfg.initialCapital],
     cumulative_return |-> calculateCumulativeReturn(tv, cfg),
     drawdown |-> calculateDrawdown(perf, tv),
     positions_count |-> Len(ps),
     cash_balance |-> availableCash,
     market_exposure |-> [num |-> tv - availableCash, den |-> tv]]

\* The record pushed to portfolio.daily_values.
RealDailyRecord(d, tv, availableCash, ps) ==
    [trade_date |-> d,
     portfolio_value |-> tv,
     cash_balance |-> availableCash,
     positions_count |-> Len(ps)]

\* recordDailyPerformance(date); the day's locals go out of scope.
RecordDailyPerformance ==
    /\ pc = "record"
    /\ dailyPerformance' =
          Append(dailyPerformance,
                 IF impl = Engine
                 THEN EngineDailyRecord(date, totalValue, cash, positions,
                                        dailyPerformance, config)
                 ELSE RealDailyRecord(date, totalValue, cash, positions))
    /\ pc' = "day"
    /\ dayData' = <<>>
    /\ candidates' = <<>>
    /\ maxNewPositions' = 0
    /\ UNCHANGED <<impl, config, dataSource, tape, other, form, previous, estimate, chipDistribution, savedTrades, savedPerformance,
                   response, date, cash, positions, totalValue, max_value,
                   trades, i, exitQueue, selected, tradeCount, winCount,
                   metrics, stored, lastClose, everCandidate>>

(* Numbers whose exact value needs Math.pow or Math.sqrt are kept by kind:  *)
(*   "NaN", "Infinity", "zero" (exactly 0), "finite" (some finite number). *)

\* Math.pow(1 + totalReturn, 365 / days) - 1
AnnualReturn(totalReturnNum, days) ==
    IF days = 0
    THEN (IF totalReturnNum = 0 THEN "NaN"
          ELSE IF totalReturnNum > 0 THEN "Infinity" ELSE "finite")
    ELSE IF totalReturnNum = 0 THEN "zero" ELSE "finite"

\* a ratio by kind
KindOfRatio(r) ==
    IF r.den = 0 THEN (IF r.num = 0 THEN "NaN" ELSE "Infinity")
    ELSE IF r.num = 0 THEN "zero" ELSE "finite"

Sells(ts) == SelectSeq(ts, LAMBDA t : t.action = "sell")

\* `t.profit_loss || 0`
ProfitLossOrZero(t) == IF t.action = "sell" THEN t.profit_loss ELSE 0

\* `p.drawdown || 0`: the larger of two drawdowns (NaN counts as 0)
RECURSIVE MaxDrawdown(_, _)
MaxDrawdown(perf, best) ==
    IF perf = <<>> THEN best
    ELSE
        LET dd == Head(perf).drawdown
        IN  MaxDrawdown(Tail(perf),
                IF dd.den > 0 /\ RatLess(best.num, best.den, dd.num, dd.den)
                THEN dd ELSE best)

\* The Sharpe ratio of calculateFinalMetrics over the daily_return column:
\* avgReturn and returnStd are NaN for no snapshot, and `returnStd > 0` is
\* then false; returnStd is 0 exactly when all returns are equal.
EngineSharpe(perf) ==
    IF \E a, b \in DOMAIN perf : perf[a].daily_return.num # perf[b].daily_return.num
    THEN "finite" ELSE "zero"

\* BacktestEngine.calculateFinalMetrics
calculateFinalMetrics(tv, ts, perf, cfg) ==
    LET totalReturn == calculateCumulativeReturn(tv, cfg)
        days == Len(perf)
        sells == Sells(ts)
        totalSellTrades == Len(sells)
        profitable == Len(SelectSeq(sells, LAMBDA t : t.profit_loss > 0))
        losing == Len(SelectSeq(sells, LAMBDA t : t.profit_loss < 0))
        pls == [j \in DOMAIN ts |-> ProfitLossOrZero(ts[j])]
    IN  [final_capital |-> tv,
         total_return |-> totalReturn,
         annual_return |-> AnnualReturn(totalReturn.num, days),
         max_drawdown |-> MaxDrawdown(perf, [num |-> 0, den |-> 1]),
         sharpe_ratio |-> EngineSharpe(perf),
         win_rate |-> IF totalSellTrades > 0
                      THEN [num |-> profitable, den |-> totalSellTrades]
                      ELSE [num |-> 0, den |-> 1],
         total_trades |-> totalSellTrades,
         profitable_trades |-> profitable,
         losing_trades |-> losing,
         avg_trade_return |-> IF totalSellTrades > 0
                              THEN [num |-> SumOf(pls), den |-> totalSellTrades]
                              ELSE [num |-> 0, den |-> 1],
         max_single_trade_loss |-> MinOf(pls, 0),
         max_single_trade_profit |-> MaxOf(pls, 0)]

\* performance_metrics.avg_daily_return of saveBacktestResults:
\* the sum of the daily returns over dailyPerformance.length
AvgDailyReturn(perf, cfg) ==
    [num |-> SumOf([j \in DOMAIN perf |-> perf[j].daily_return.num]),
     den |-> Len(perf) * cfg.initialCapital]

\* The Sharpe ratio of runRealBacktest over day-over-day returns:
\* guarded for fewer than two returns, 0 when their deviation is 0.
RealSharpe(perf) ==
    IF Len(perf) >= 3
       /\ \E a, b \in 2..Len(perf) :
             RatLess(perf[a].portfolio_value, perf[a - 1].portfolio_value,
                     perf[b].portfolio_value, perf[b - 1].portfolio_value)
    THEN "finite" ELSE "zero"

\* (endDateObj - startDateObj) in days, for a range of `days` weekdays that
\* starts on a Monday and ends on its last weekday: seven calendar days for
\* every five weekdays.
CalendarSpan(days) == ((days - 1) \div 5) * 7 + ((days - 1) % 5)

\* The statistics and the result record of runRealBacktest.  annual_exponent
\* is the local `365 / daysDiff` that annual_return was raised to (the kind
\* of annual_return does not show it).
RealResult(tv, mv, perf, tc, wc, cfg) ==
    LET totalReturn == calculateCumulativeReturn(tv, cfg)
        daysDiff == Max(1, CalendarSpan(cfg.days))
    IN  [status |-> "completed",
         total_return |-> totalReturn,
         annual_return |-> AnnualReturn(totalReturn.num, daysDiff),
         annual_exponent |-> [num |-> 365, den |-> daysDiff],
         max_drawdown |->
             [num |-> MaxOf([j \in DOMAIN perf |-> mv - perf[j].portfolio_value], 0),
              den |-> mv],
         sharpe_ratio |-> RealSharpe(perf),
         win_rate |-> IF tc > 0 THEN [num |-> wc, den |-> tc]
                      ELSE [num |-> 0, den |-> 1],
         total_trades |-> tc,
         initial_capital |-> cfg.initialCapital,
         final_value |-> tv]

\* After the last date: calculateFinalMetrics() / the statistics block.
CalculateFinalMetrics ==
    /\ pc = "day"
    /\ ~MoreDates
    /\ metrics' =
          IF impl = Engine
          THEN calculateFinalMetrics(totalValue, trades, dailyPerformance, config)
          ELSE RealResult(totalValue, max_value, dailyPerformance, tradeCount,
                          winCount, config)
    /\ pc' = IF impl = Engine THEN "save" ELSE "done"
    /\ response' =
          IF impl = Real THEN [code |-> 200, data |-> metrics'] ELSE response
    /\ UNCHANGED <<impl, config, dataSource, tape, other, form, previous, estimate, chipDistribution, savedTrades, savedPerformance, date, dayData, cash, positions, totalValue,
                   max_value, trades, dailyPerformance, i, exitQueue,
                   candidates, selected, maxNewPositions, tradeCount, winCount,
                   stored, lastClose, everCandidate>>

\* The rows saveBacktestResults inserts: `{backtest_id, ...trade}` and the
\* daily records (which carry backtest_id).
TradeRows(ts) == [j \in DOMAIN ts |-> [backtest_id |-> RunId] @@ ts[j]]
PerformanceRows(perf) == [j \in DOMAIN perf |-> [backtest_id |-> RunId] @@ perf[j]]

\* What the three database calls of saveBacktestResults can do: all succeed,
\* or the first one that is made and returns an error is thrown.
SaveOutcomes(ts, perf) ==
    {"saved", "resultError"}
        \cup (IF ts # <<>> THEN {"tradesError"} ELSE {})
        \cup (IF perf # <<>> THEN {"performanceError"} ELSE {})

\* saveBacktestResults, then the answer of the run_backtest handler: the
\* result of runBacktest, or the catch block's error body.
SaveBacktestResults ==
    /\ pc = "save"
    /\ \E outcome \in SaveOutcomes(trades, dailyPerformance) :
        /\ stored' =
              IF outcome = "resultError" THEN stored
              ELSE [status |-> "completed",
                    metrics |-> metrics,
                    performance_metrics |->
                        [total_days |-> Len(dailyPerformance),
                         trading_days |-> Len(trades),
                         avg_daily_return |->
                             AvgDailyReturn(dailyPerformance, config)]]
        /\ savedTrades' =
              IF outcome \in {"saved", "performanceError"}
              THEN savedTrades \o TradeRows(trades) ELSE savedTrades
        /\ savedPerformance' =
              IF outcome = "saved"
              THEN savedPerformance \o PerformanceRows(dailyPerformance)
              ELSE savedPerformance
        /\ pc' = IF outcome = "saved" THEN "done" ELSE "failed"
        /\ response' =
              IF outcome = "saved"
              THEN [success |-> TRUE, backtestId |-> RunId, metrics |-> metrics,
                    trades |-> Len(trades), finalValue |-> totalValue]
              ELSE [error |-> "internal error", details |-> outcome]
    /\ UNCHANGED <<impl, config, dataSource, tape, other, form, previous, estimate, chipDistribution, date, dayData, cash, positions,
                   totalValue, max_value, trades, dailyPerformance, i,
                   exitQueue, candidates, selected, maxNewPositions,
                   tradeCount, winCount, metrics, lastClose, everCandidate>>

Next ==
    \/ SkipDay
    \/ StartDay
    \/ EngineCheckExit
    \/ RealCheckExit
    \/ ScreenStocks
    \/ EngineBuy
    \/ RealBuy
    \/ UpdatePortfolioValue
    \/ RecordDailyPerformance
    \/ CalculateFinalMetrics
    \/ SaveBacktestResults

Spec == Init /\ [][Next]_vars

SpecBoundary == InitBoundary /\ [][Next]_vars

\* Requests the handler accepts although a threshold is absent or out of its
\* range: no minTurnoverRate; maxStockPrice -1; chipConcentrationThreshold 1.5.
InvalidConfigs ==
    UNION {{Without(c, {"minTurnoverRate"}),
            [c EXCEPT !.maxStockPrice = -1],
            [c EXCEPT !.chipConcentrationThreshold = 1500]} :
                c \in BoundaryConfigs}

InitInvalid ==
    /\ impl \in {Engine, Real}
    /\ config \in InvalidConfigs
    /\ dataSource = "market"
    /\ Constructed

SpecInvalid == InitInvalid /\ [][Next]_vars

\* A second run_backtest request carrying the configuration of a run that
\* completed: the handler constructs a new BacktestEngine from it and calls
\* runBacktest again.  `previous` keeps what the first run produced; stored,
\* savedTrades and savedPerformance show the rows of the new request's id.
RunAgain ==
    /\ impl = Engine
    /\ pc = "done"
    /\ ~previous.ran
    /\ previous' = [ran |-> TRUE, trades |-> trades,
                    dailyPerformance |-> dailyPerformance,
                    metrics |-> metrics]
    /\ pc' = "day"
    /\ date' = 0
    /\ dayData' = <<>>
    /\ cash' = config.initialCapital
    /\ positions' = <<>>
    /\ totalValue' = config.initialCapital
    /\ max_value' = config.initialCapital
    /\ trades' = <<>>
    /\ dailyPerformance' = <<>>
    /\ i' = 0
    /\ exitQueue' = <<>>
    /\ candidates' = <<>>
    /\ selected' = <<>>
    /\ maxNewPositions' = 0
    /\ tradeCount' = 0
    /\ winCount' = 0
    /\ metrics' = NoMetrics
    /\ stored' = [status |-> "running"]
    /\ savedTrades' = OtherRunTrades
    /\ savedPerformance' = OtherRunPerformance
    /\ response' = [status |-> "pending"]
    /\ lastClose' = [c \in Stocks |-> 0]
    /\ everCandidate' = FALSE
    /\ UNCHANGED <<impl, config, dataSource, tape, other, form, estimate, chipDistribution>>

\* BacktestEngine serving two requests with one configuration, over two
\* calendar dates.
InitRerun ==
    /\ impl = Engine
    /\ config \in {c \in BoundaryConfigs : c.maxPositions = 1}
    /\ dataSource = "market"
    /\ Constructed

NextRerun ==
    \/ SkipDay
    \/ StartDay
    \/ EngineCheckExit
    \/ ScreenStocks
    \/ EngineBuy
    \/ UpdatePortfolioValue
    \/ RecordDailyPerformance
    \/ CalculateFinalMetrics
    \/ SaveBacktestResults
    \/ RunAgain

SpecRerun == InitRerun /\ [][NextRerun]_vars

\* Arguments of the estimators, in tenths: the branch points of the two
\* functions, their neighbours, and the ends of the ranges (a change of
\* -100 % or +100 %, a turnover of 0, 1 % or 100 %, a volume ratio of 0).
PctChgInputs ==
    {-1000, -101, -100, -46, -45, -31, -30, -1, 0, 1, 19, 20, 30, 31, 70, 71,
     80, 81, 90, 91, 100, 101, 160, 1000}
TurnoverInputs == {0, 1, 10, 50, 80, 100, 101, 160, 200, 220, 280, 1000}
VolumeRatioInputs == {0, 5, 10, 15, 16, 35, 50, 100}

\* One call of the estimator the simulator's data path uses:
\* generateRealisticChipMetrics(pctChg, turnoverRate, volumeRatio) in
\* backtest-engine, calculateImprovedChipConcentration(stock) in
\* stock-api-real.
Estimate ==
    /\ ~estimate.called
    /\ "pct_chg" \in DOMAIN estimate
    /\ LET pair ==
              IF impl = Engine
              THEN generateRealisticChipMetrics(estimate.pct_chg,
                       estimate.turnover_rate, estimate.volume_ratio)
              ELSE calculateImprovedChipConcentration(estimate)
           dens == IF impl = Engine THEN <<400000, 6000>> ELSE <<400000, 600>>
       IN  estimate' =
              [estimate EXCEPT !.called = TRUE] @@
              [chipConcentration |-> [num |-> pair[1], den |-> dens[1]],
               profitRatio |-> [num |-> pair[2], den |-> dens[2]]]
    /\ UNCHANGED <<impl, config, dataSource, tape, other, form, previous, chipDistribution, pc, date,
                   dayData, cash, positions, totalValue, max_value, trades, dailyPerformance,
                   i, exitQueue, candidates, selected, maxNewPositions,
                   tradeCount, winCount, metrics, stored, savedTrades,
                   savedPerformance, response, lastClose, everCandidate>>

EstimatorInputs ==
    [called : {FALSE}, pct_chg : PctChgInputs, turnover_rate : TurnoverInputs,
     volume_ratio : VolumeRatioInputs]

InitEstimator ==
    /\ impl \in {Engine, Real}
    /\ config \in {c \in BoundaryConfigs : c.maxPositions = 1}
    /\ dataSource = "market"
    /\ pc = "day"
    /\ date = 0
    /\ dayData = <<>>
    /\ cash = config.initialCapital
    /\ positions = <<>>
    /\ totalValue = config.initialCapital
    /\ max_value = config.initialCapital
    /\ trades = <<>>
    /\ dailyPerformance = <<>>
    /\ i = 0
    /\ exitQueue = <<>>
    /\ candidates = <<>>
    /\ selected = <<>>
    /\ maxNewPositions = 0
    /\ tradeCount = 0
    /\ winCount = 0
    /\ metrics = NoMetrics
    /\ stored = [status |-> "running"]
    /\ savedTrades = OtherRunTrades
    /\ savedPerformance = OtherRunPerformance
    /\ response = [status |-> "pending"]
    /\ tape = <<>>
    /\ other = NoOther
    /\ form = NoForm
    /\ previous = NoRun
    /\ estimate \in EstimatorInputs
    /\ chipDistribution = NoDistribution
    /\ lastClose = [c \in Stocks |-> 0]
    /\ everCandidate = FALSE

NextEstimator == Estimate

SpecEstimator == InitEstimator /\ [][NextEstimator]_vars

\* `.eq('backtest_id', backtestId)` without the filter: every row.
selectAnyRun(table, backtestId) == table

\* `.select('*').eq('backtest_id', backtestId)`: the rows of one run.
selectByBacktestId(table, backtestId) ==
    SelectSeq(table, LAMBDA r : r.backtest_id = backtestId)

\* `.order('trade_date', {ascending: true})`: the rows by ascending date;
\* the database returns rows of one date in any order.
orderByTradeDate(rows) ==
    {[j \in DOMAIN rows |-> rows[f[j]]] :
        f \in {g \in Permutations(DOMAIN rows) :
                  \A j, k \in DOMAIN rows :
                      j < k => rows[g[j]].trade_date <= rows[g[k]].trade_date}}

\* Each of the three queries of get_backtest_detail answers or returns an
\* error, which the handler throws.
DetailOutcomes == {"found", "backtestError", "tradesError", "performanceError"}

\* A get_backtest_detail request for the run's id, after the run_backtest
\* request was answered.
GetBacktestDetail ==
    /\ impl = Engine
    /\ pc \in {"done", "failed"}
    /\ \E outcome \in DetailOutcomes :
        \E ts \in orderByTradeDate(selectByBacktestId(savedTrades, RunId)) :
        \E perf \in orderByTradeDate(selectByBacktestId(savedPerformance, RunId)) :
            response' =
                IF outcome = "found"
                THEN [success |-> TRUE, backtest |-> stored, trades |-> ts,
                      dailyPerformance |-> perf]
                ELSE [error |-> "internal error", details |-> outcome]
    /\ pc' = IF pc = "done" THEN "detail" ELSE "detailOfFailed"
    /\ UNCHANGED <<impl, config, dataSource, tape, other, form, previous, estimate, chipDistribution,
                   date, dayData, cash, positions, totalValue, max_value,
                   trades, dailyPerformance, i, exitQueue, candidates,
                   selected, maxNewPositions, tradeCount, winCount, metrics,
                   stored, savedTrades, savedPerformance, lastClose,
                   everCandidate>>

\* backtest-engine serving run_backtest and then get_backtest_detail, for a
\* run over two calendar dates.
InitDetail ==
    /\ impl = Engine
    /\ config \in BoundaryConfigs
    /\ dataSource = "market"
    /\ Constructed

NextDetail ==
    \/ SkipDay
    \/ StartDay
    \/ EngineCheckExit
    \/ ScreenStocks
    \/ EngineBuy
    \/ UpdatePortfolioValue
    \/ RecordDailyPerformance
    \/ CalculateFinalMetrics
    \/ SaveBacktestResults
    \/ GetBacktestDetail

SpecDetail == InitDetail /\ [][NextDetail]_vars

---------------------------------------------------------------------------
(* Two requests served by one function instance.  Each request has its own *)
(* BacktestEngine object (its fields) or its own call of runRealBacktest   *)
(* (its locals); the event loop runs one of them at a time and changes     *)
(* over where the running one awaits.                                      *)

\* What the provider holds for one date, and for the two dates of a range.
TapeDays ==
    {<<>>,
     <<Bar("000001.SZ", KindQ), Bar("000002.SZ", KindQ)>>,
     <<Bar("000002.SZ", KindQ)>>,
     <<Bar("000001.SZ", KindD), Bar("000002.SZ", KindU)>>}

Tapes == [1..2 -> TapeDays]

\* The fields of a BacktestEngine object / the locals of a runRealBacktest
\* call, with the request's configuration and the data it reads.
RunContext ==
    [config |-> config, tape |-> tape, pc |-> pc, date |-> date,
     dayData |-> dayData, cash |-> cash, positions |-> positions,
     totalValue |-> totalValue, max_value |-> max_value, trades |-> trades,
     dailyPerformance |-> dailyPerformance, i |-> i, exitQueue |-> exitQueue,
     candidates |-> candidates, selected |-> selected,
     maxNewPositions |-> maxNewPositions, tradeCount |-> tradeCount,
     winCount |-> winCount, metrics |-> metrics, response |-> response,
     lastClose |-> lastClose, everCandidate |-> everCandidate]

\* The constructor / the head of runRealBacktest.
NewContext(cfg, tp) ==
    [config |-> cfg, tape |-> tp, pc |-> "day", date |-> 0, dayData |-> <<>>,
     cash |-> cfg.initialCapital, positions |-> <<>>,
     totalValue |-> cfg.initialCapital, max_value |-> cfg.initialCapital,
     trades |-> <<>>, dailyPerformance |-> <<>>, i |-> 0, exitQueue |-> <<>>,
     candidates |-> <<>>, selected |-> <<>>, maxNewPositions |-> 0,
     tradeCount |-> 0, winCount |-> 0, metrics |-> NoMetrics,
     response |-> [status |-> "pending"],
     lastClose |-> [c \in Stocks |-> 0], everCandidate |-> FALSE]

\* The portfolio kept in one module-level object that every request uses.
ResumeSharedPortfolio(ctx) ==
    [ctx EXCEPT !.cash = cash, !.positions = positions,
                !.totalValue = totalValue]

\* What the resumed request finds in its object / its locals: what it left.
Resume(ctx) == ctx

\* The run has left its day loop and computed its metrics.
Finished(p) == p \in {"save", "done"}

Install(ctx) ==
    /\ config' = ctx.config
    /\ tape' = ctx.tape
    /\ pc' = ctx.pc
    /\ date' = ctx.date
    /\ dayData' = ctx.dayData
    /\ cash' = ctx.cash
    /\ positions' = ctx.positions
    /\ totalValue' = ctx.totalValue
    /\ max_value' = ctx.max_value
    /\ trades' = ctx.trades
    /\ dailyPerformance' = ctx.dailyPerformance
    /\ i' = ctx.i
    /\ exitQueue' = ctx.exitQueue
    /\ candidates' = ctx.candidates
    /\ selected' = ctx.selected
    /\ maxNewPositions' = ctx.maxNewPositions
    /\ tradeCount' = ctx.tradeCount
    /\ winCount' = ctx.winCount
    /\ metrics' = ctx.metrics
    /\ response' = ctx.response
    /\ lastClose' = ctx.lastClose
    /\ everCandidate' = ctx.everCandidate

\* A run that executed alone is over; two requests arrive: "A", with that
\* run's configuration and data, and "B" with its own.
StartConcurrentRuns ==
    /\ ~other.active
    /\ ~previous.ran
    /\ tape # <<>>
    /\ Finished(pc)
    /\ previous' = [ran |-> TRUE, cash |-> cash, positions |-> positions,
                    totalValue |-> totalValue, trades |-> trades,
                    dailyPerformance |-> dailyPerformance, metrics |-> metrics]
    /\ Install(NewContext(config, tape))
    /\ \E cfg \in BoundaryConfigs, tp \in Tapes :
          other' = [active |-> TRUE, name |-> "B", midDay |-> FALSE,
                    ctx |-> NewContext(cfg, tp)]
    /\ UNCHANGED <<impl, dataSource, form, estimate, chipDistribution, stored,
                   savedTrades, savedPerformance>>

\* The running request awaits and the event loop resumes the other one.
Switch ==
    /\ other.active
    /\ ~Finished(pc) \/ ~Finished(other.ctx.pc)
    /\ Install(Resume(other.ctx))
    /\ other' = [active |-> TRUE,
                 name |-> IF other.name = "A" THEN "B" ELSE "A",
                 midDay |-> other.midDay \/ pc \in {"exit", "buy", "record"},
                 ctx |-> RunContext]
    /\ UNCHANGED <<impl, dataSource, form, previous, estimate, chipDistribution,
                   stored, savedTrades, savedPerformance>>

InitConcurrent ==
    /\ impl \in {Engine, Real}
    /\ config \in BoundaryConfigs
    /\ dataSource = "market"
    /\ pc = "day"
    /\ date = 0
    /\ dayData = <<>>
    /\ cash = config.initialCapital
    /\ positions = <<>>
    /\ totalValue = config.initialCapital
    /\ max_value = config.initialCapital
    /\ trades = <<>>
    /\ dailyPerformance = <<>>
    /\ i = 0
    /\ exitQueue = <<>>
    /\ candidates = <<>>
    /\ selected = <<>>
    /\ maxNewPositions = 0
    /\ tradeCount = 0
    /\ winCount = 0
    /\ metrics = NoMetrics
    /\ stored = [status |-> "running"]
    /\ savedTrades = OtherRunTrades
    /\ savedPerformance = OtherRunPerformance
    /\ response = [status |-> "pending"]
    /\ tape \in Tapes
    /\ other = NoOther
    /\ form = NoForm
    /\ previous = NoRun
    /\ estimate = NoEstimate
    /\ chipDistribution = NoDistribution
    /\ lastClose = [c \in Stocks |-> 0]
    /\ everCandidate = FALSE

NextConcurrent ==
    \/ SkipDay
    \/ StartDay
    \/ EngineCheckExit
    \/ RealCheckExit
    \/ ScreenStocks
    \/ EngineBuy
    \/ RealBuy
    \/ UpdatePortfolioValue
    \/ RecordDailyPerformance
    \/ CalculateFinalMetrics
    \/ StartConcurrentRuns
    \/ Switch

SpecConcurrent == InitConcurrent /\ [][NextConcurrent]_vars

---------------------------------------------------------------------------
(* runRealBacktest over a range longer than its day limit.                 *)

\* Weekdays of the range beyond DayLimit.
ExtraDays == 2

LongConfigs == {[c EXCEPT !.days = DayLimit + ExtraDays] : c \in Configs}

\* What the provider holds for the range: the records of the odd and of the
\* even dates.
LongTapes ==
    {[d \in 1..(DayLimit + ExtraDays) |-> IF d % 2 = 1 THEN odd ELSE even] :
        odd \in TapeDays, even \in TapeDays}

InitLongRange ==
    /\ impl = Real
    /\ config \in LongConfigs
    /\ dataSource = "market"
    /\ pc = "day"
    /\ date = 0
    /\ dayData = <<>>
    /\ cash = config.initialCapital
    /\ positions = <<>>
    /\ totalValue = config.initialCapital
    /\ max_value = config.initialCapital
    /\ trades = <<>>
    /\ dailyPerformance = <<>>
    /\ i = 0
    /\ exitQueue = <<>>
    /\ candidates = <<>>
    /\ selected = <<>>
    /\ maxNewPositions = 0
    /\ tradeCount = 0
    /\ winCount = 0
    /\ metrics = NoMetrics
    /\ stored = [status |-> "running"]
    /\ savedTrades = OtherRunTrades
    /\ savedPerformance = OtherRunPerformance
    /\ response = [status |-> "pending"]
    /\ tape \in LongTapes
    /\ other = NoOther
    /\ form = NoForm
    /\ previous = NoRun
    /\ estimate = NoEstimate
    /\ chipDistribution = NoDistribution
    /\ lastClose = [c \in Stocks |-> 0]
    /\ everCandidate = FALSE

NextLongRange ==
    \/ SkipDay
    \/ StartDay
    \/ RealCheckExit
    \/ ScreenStocks
    \/ RealBuy
    \/ UpdatePortfolioValue
    \/ RecordDailyPerformance
    \/ CalculateFinalMetrics

SpecLongRange == InitLongRange /\ [][NextLongRange]_vars

---------------------------------------------------------------------------
(* The cost-basis distribution estimator (turnover recursion): seed, then  *)
(* per day decay, injection and renormalisation.  A distribution is a      *)
(* vector of bucket volumes over a common denominator, kept in lowest      *)
(* terms: [num |-> <<n1, n2, n3>>, den |-> d].  turnover_rate is a         *)
(* fraction in thousandths.                                                *)

LookbackDays == 2

Buckets == 1..3

FloatShares == 12

CostBars ==
    [vwap : Buckets, volume : {12, 24},
     turnover_rate : {0, 1, 100, 500, 1000, 1500}]

RECURSIVE GCD(_, _)
GCD(a, b) == IF b = 0 THEN a ELSE GCD(b, a % b)

Reduce(r) ==
    LET g == GCD(GCD(GCD(r.num[1], r.num[2]), r.num[3]), r.den)
    IN  [num |-> [b \in Buckets |-> r.num[b] \div g], den |-> r.den \div g]

\* Triangular kernel centred on the VWAP bucket: the weight falls linearly
\* with the distance and the weights share out the day's volume.
distributeVolumeTriangle(bar) ==
    LET w == [b \in Buckets |->
                 Max(0, 2 - (IF b >= bar.vwap THEN b - bar.vwap ELSE bar.vwap - b))]
    IN  [b \in Buckets |-> (bar.volume * w[b]) \div (w[1] + w[2] + w[3])]

\* Decay: every bucket times retention_rate = 1 - turnover_rate, the
\* turnover rate limited to [0.001, 1.0].
Decay(dist, turnoverRate) ==
    LET clamped == Max(1, Min(1000, turnoverRate))
    IN  Reduce([num |-> [b \in Buckets |-> dist.num[b] * (1000 - clamped)],
                den |-> 1000 * dist.den])

\* Injection: the day's kernel added bucket by bucket.
Inject(dist, injection) ==
    Reduce([num |-> [b \in Buckets |-> dist.num[b] + injection[b] * dist.den],
            den |-> dist.den])

\* Renormalisation: the total is scaled to the free-float shares.
Renormalize(dist) ==
    Reduce([num |-> [b \in Buckets |-> dist.num[b] * FloatShares],
            den |-> dist.num[1] + dist.num[2] + dist.num[3]])

\* Day 1 of the window: the seed.
SeedDistribution ==
    /\ ~chipDistribution.seeded
    /\ date = 0
    /\ LookbackDays >= 1
    /\ \E bar \in CostBars :
        LET injection == distributeVolumeTriangle(bar)
            raw == Reduce([num |-> injection, den |-> 1])
        IN  chipDistribution' =
                [seeded |-> TRUE, bar |-> bar, injection |-> injection,
                 decayed |-> raw, raw |-> raw, dist |-> Renormalize(raw),
                 zeroTurnover |-> bar.turnover_rate = 0]
    /\ date' = 1
    /\ UNCHANGED <<impl, config, dataSource, tape, other, form, previous, estimate, pc, dayData,
                   cash, positions, totalValue, max_value, trades,
                   dailyPerformance, i, exitQueue, candidates, selected,
                   maxNewPositions, tradeCount, winCount, metrics, stored,
                   savedTrades, savedPerformance, response, lastClose,
                   everCandidate>>

\* Each later day of the window: decay, injection, renormalisation.
RecurseDistribution ==
    /\ chipDistribution.seeded
    /\ date < LookbackDays
    /\ \E bar \in CostBars :
        LET injection == distributeVolumeTriangle(bar)
            decayed == Decay(chipDistribution.dist, bar.turnover_rate)
            raw == Inject(decayed, injection)
        IN  chipDistribution' =
                [seeded |-> TRUE, bar |-> bar, injection |-> injection,
                 decayed |-> decayed, raw |-> raw, dist |-> Renormalize(raw),
                 zeroTurnover |->
                     chipDistribution.zeroTurnover /\ bar.turnover_rate = 0]
    /\ date' = date + 1
    /\ UNCHANGED <<impl, config, dataSource, tape, other, form, previous, estimate, pc, dayData,
                   cash, positions, totalValue, max_value, trades,
                   dailyPerformance, i, exitQueue, candidates, selected,
                   maxNewPositions, tradeCount, winCount, metrics, stored,
                   savedTrades, savedPerformance, response, lastClose,
                   everCandidate>>

InitCostBasis ==
    /\ impl = Real
    /\ config \in {c \in BoundaryConfigs : c.maxPositions = 1}
    /\ dataSource = "market"
    /\ Constructed

NextCostBasis ==
    \/ SeedDistribution
    \/ RecurseDistribution

SpecCostBasis == InitCostBasis /\ [][NextCostBasis]_vars

---------------------------------------------------------------------------
(* The settings page: the five factor weights of the form and the          *)
(* weightSum state shown next to them.                                     *)

WeightFields == 1..5

\* The values loadSettings puts in the form when nothing is stored.
DefaultWeights == <<30, 25, 20, 15, 10>>

\* Values a weight is set to.
WeightInputs == {0, 1, 25, 50}

\* The sum both functions compute over the five fields.
WeightSumOf(w) == w[1] + w[2] + w[3] + w[4] + w[5]

RECURSIVE IsPowerOfTwo(_)
IsPowerOfTwo(n) == n = 1 \/ (n > 1 /\ n % 2 = 0 /\ IsPowerOfTwo(n \div 2))

\* `Math.round(v * factor)` with factor = 100 / currentSum: the nearest
\* integer, a half going up.  Where 100 / currentSum is no binary fraction
\* the product of a half-way case may fall on either side.
RoundWeight(v, currentSum) ==
    LET up == (200 * v + currentSum) \div (2 * currentSum)
        tie == (200 * v + currentSum) % (2 * currentSum) = 0
        exact == IsPowerOfTwo(currentSum \div GCD(currentSum, 100))
    IN  IF tie /\ ~exact THEN {up - 1, up} ELSE {up}

\* loadSettings: setFieldsValue(formValues), calculateWeightSum(formValues).
LoadSettings ==
    /\ ~form.loaded
    /\ form' = [loaded |-> TRUE, normalized |-> FALSE,
                weights |-> DefaultWeights,
                weightSum |-> WeightSumOf(DefaultWeights)]
    /\ UNCHANGED <<impl, config, dataSource, tape, other, previous, estimate,
                   chipDistribution, pc, date, dayData, cash, positions,
                   totalValue, max_value, trades, dailyPerformance, i,
                   exitQueue, candidates, selected, maxNewPositions,
                   tradeCount, winCount, metrics, stored, savedTrades,
                   savedPerformance, response, lastClose, everCandidate>>

\* A weight is moved: handleFormChange and, after the debounce,
\* calculateWeightSum(form.getFieldsValue()).
ChangeWeight ==
    /\ form.loaded
    /\ ~form.normalized
    /\ \E k \in WeightFields, v \in WeightInputs :
        LET w == [form.weights EXCEPT ![k] = v]
        IN  form' = [form EXCEPT !.weights = w, !.weightSum = WeightSumOf(w)]
    /\ UNCHANGED <<impl, config, dataSource, tape, other, previous, estimate,
                   chipDistribution, pc, date, dayData, cash, positions,
                   totalValue, max_value, trades, dailyPerformance, i,
                   exitQueue, candidates, selected, maxNewPositions,
                   tradeCount, winCount, metrics, stored, savedTrades,
                   savedPerformance, response, lastClose, everCandidate>>

\* normalizeWeights, its first branch.
NormalizeWeights ==
    /\ form.loaded
    /\ ~form.normalized
    /\ LET currentSum == WeightSumOf(form.weights)
       IN  /\ currentSum # 100
           /\ currentSum > 0
           /\ \E w \in [WeightFields ->
                          UNION {RoundWeight(form.weights[k], currentSum) :
                                     k \in WeightFields}] :
               /\ \A k \in WeightFields :
                     w[k] \in RoundWeight(form.weights[k], currentSum)
               /\ form' = [form EXCEPT !.weights = w, !.weightSum = 100,
                                       !.normalized = TRUE]
    /\ UNCHANGED <<impl, config, dataSource, tape, other, previous, estimate,
                   chipDistribution, pc, date, dayData, cash, positions,
                   totalValue, max_value, trades, dailyPerformance, i,
                   exitQueue, candidates, selected, maxNewPositions,
                   tradeCount, winCount, metrics, stored, savedTrades,
                   savedPerformance, response, lastClose, everCandidate>>

InitSettings ==
    /\ impl = Real
    /\ config \in {c \in BoundaryConfigs : c.maxPositions = 1}
    /\ dataSource = "market"
    /\ Constructed

NextSettings ==
    \/ LoadSettings
    \/ ChangeWeight
    \/ NormalizeWeights

SpecSettings == InitSettings /\ [][NextSettings]_vars

---------------------------------------------------------------------------
(* Vocabulary of the properties.                                           *)

\* The position the exit loop is about to test.
ExitPending == pc = "exit" /\ ~ExitsDone

Examined == IF impl = Engine THEN positions[i] ELSE Head(exitQueue)

\* A step that appends one trade of the given action.
Appends(action) ==
    /\ Len(trades') = Len(trades) + 1
    /\ SubSeq(trades', 1, Len(trades)) = trades
    /\ trades'[Len(trades')].action = action

LastTrade == trades[Len(trades)]

ReasonOf(t) == IF "trade_reason" \in DOMAIN t THEN t.trade_reason ELSE ""

\* Open positions valued at the latest close of their instrument.
RECURSIVE HeldValue(_, _)
HeldValue(ps, close) ==
    IF ps = <<>> THEN 0
    ELSE Amount(close[Head(ps).stock_code], Head(ps).quantity)
         + HeldValue(Tail(ps), close)

---------------------------------------------------------------------------
\* C1: after every simulated day the recorded total value equals cash plus
\* the sum over every open position of quantity x the instrument's current
\* price, a position whose instrument has no bar that day included.
C1_TotalValueCoversEveryPosition ==
    pc = "record" => totalValue = cash + HeldValue(positions, lastClose)

\* commission_rate of the configuration, in 1/10000: the default 0.03% and
\* the 1% of Scenario D.  Neither simulator reads it.
ConfiguredCommissionRates == {3, 100}

\* C2: for every executed buy and the configured commission_rate,
\* quantity x price x (1 + commission_rate) <= cash held immediately before
\* the trade; cash is never negative.
C2_BuyCoversCommission ==
    [][/\ cash' >= 0
       /\ Appends("buy") =>
            \A rate \in ConfiguredCommissionRates :
                trades'[Len(trades')].price * trades'[Len(trades')].quantity
                    * (10000 + rate) <= cash * 100]_vars

\* The four exit rules as the design states them, for a position and the
\* day's bar of its instrument.
StopLossHit(p, bar) ==
    (bar.price - p.entry_price) * 100 <= -config.stopLoss * p.entry_price

TakeProfitHit(p, bar) ==
    (bar.price - p.entry_price) * 100 >= config.takeProfit * p.entry_price

MaxHoldingHit(p) == date - p.entry_date >= config.holdingDays[2]

TechnicalHit(bar) == bar.pct_chg < -50 /\ bar.volume_ratio < 5

FirstRule(p, bar) ==
    CASE StopLossHit(p, bar) -> "stop_loss"
      [] ~StopLossHit(p, bar) /\ TakeProfitHit(p, bar) -> "take_profit"
      [] ~StopLossHit(p, bar) /\ ~TakeProfitHit(p, bar) /\ MaxHoldingHit(p) ->
            "max_holding"
      [] ~StopLossHit(p, bar) /\ ~TakeProfitHit(p, bar) /\ ~MaxHoldingHit(p)
            /\ TechnicalHit(bar) -> "technical"
      [] OTHER -> ""

\* The step sells position p at the day's close net of commission, for the
\* given reason: one sell TradeRecord appended, the position removed.
SoldFor(p, bar, reason) ==
    /\ Appends("sell")
    /\ trades'[Len(trades')].stock_code = p.stock_code
    /\ trades'[Len(trades')].price = bar.price
    /\ trades'[Len(trades')].quantity = p.quantity
    /\ trades'[Len(trades')].trade_date = date
    /\ ReasonOf(trades'[Len(trades')]) = reason
    /\ cash' = cash + Amount(bar.price, p.quantity)
                 - (Amount(bar.price, p.quantity) * CommissionBp) \div 10000
    /\ Len(positions') = Len(positions) - 1
    /\ ~(p \in {positions'[j] : j \in DOMAIN positions'})

StaysOpen == positions' = positions /\ trades' = trades /\ cash' = cash

\* C3: in exit evaluation each open position with a bar that day is tested
\* against stop-loss, take-profit, max-holding-days, technical deterioration
\* in that order; the first match decides the sale and its reason, the
\* position is sold at the close net of commission, one sell TradeRecord is
\* appended and the position removed; a position matching no rule stays open.
C3_FirstMatchingRuleSells ==
    [][(ExitPending /\ HasBar(dayData, Examined.stock_code)) =>
          LET p == Examined
              bar == BarOf(dayData, p.stock_code)
          IN  IF FirstRule(p, bar) = "" THEN StaysOpen
              ELSE SoldFor(p, bar, FirstRule(p, bar))]_vars

\* C4: the number of open positions never exceeds max_open_positions; a day
\* that starts entry evaluation with `open` positions hands at most
\* (max - open) candidates to the buy loop, the top of the screener's list in
\* rank order (none when open >= max), and every buy takes the next of them.
C4_AtMostMaxOpenPositions ==
    /\ [](Len(positions) <= config.maxPositions)
    /\ [][/\ (pc = "exit" /\ pc' = "buy") =>
                /\ Len(selected') <= Max(0, config.maxPositions - Len(positions))
                /\ selected' = SubSeq(candidates', 1, Len(selected'))
          /\ Appends("buy") =>
                /\ selected # <<>>
                /\ trades'[Len(trades')].stock_code = Head(selected).stock_code
                /\ selected' = Tail(selected)]_vars

\* A day whose entry step started with every slot free but one, more
\* candidates than free slots, and a buy that filled the last slot.
C4_Witness ==
    /\ pc = "record"
    /\ Len(candidates) > maxNewPositions
    /\ maxNewPositions >= 1
    /\ Len(positions) = config.maxPositions
    /\ trades # <<>>
    /\ LastTrade.action = "buy"
    /\ LastTrade.trade_date = date

\* C5: a buy is never executed for an instrument that already has an open
\* position: at most one open position per instrument, none overwritten.
C5_NoBuyOfHeldInstrument ==
    [][Appends("buy") =>
          ~(trades'[Len(trades')].stock_code \in HeldCodes(positions))]_vars

\* C6: if no instrument passes the screener on any day of the run, the run
\* ends with total_trades = 0 and total_return = 0, cash equal to the initial
\* capital and no open position.
C6_NoCandidateNoTrade ==
    (pc = "done" /\ ~everCandidate) =>
        /\ metrics.total_trades = 0
        /\ metrics.total_return.num = 0
        /\ trades = <<>>
        /\ cash = config.initialCapital
        /\ positions = <<>>

\* A finished run of at least two simulated days in which nothing qualified.
C6_Witness ==
    /\ pc = "done"
    /\ ~everCandidate
    /\ Len(dailyPerformance) >= 2

\* The step closes position p for the given reason.
ClosedFor(p, reason) ==
    /\ Appends("sell")
    /\ trades'[Len(trades')].stock_code = p.stock_code
    /\ trades'[Len(trades')].trade_date = date
    /\ ReasonOf(trades'[Len(trades')]) = reason
    /\ ~(p \in {positions'[j] : j \in DOMAIN positions'})

\* C7: a position whose instrument has a bar and triggers neither stop-loss,
\* take-profit nor technical deterioration stays open on every day with
\* elapsed holding days < max of holding_days_range and is force-closed, with
\* reason max-holding-days, on the day its elapsed holding days reaches max.
C7_ForceCloseAtMaxHoldingDays ==
    [][(/\ ExitPending
        /\ HasBar(dayData, Examined.stock_code)
        /\ ~StopLossHit(Examined, BarOf(dayData, Examined.stock_code))
        /\ ~TakeProfitHit(Examined, BarOf(dayData, Examined.stock_code))
        /\ ~TechnicalHit(BarOf(dayData, Examined.stock_code))) =>
          IF date - Examined.entry_date < config.holdingDays[2] THEN StaysOpen
          ELSE ClosedFor(Examined, "max_holding")]_vars

\* The buy loop is about to test the next selected candidate.
BuyPending == pc = "buy" /\ selected # <<>>

\* The candidate has a free slot (it was selected) and an affordable lot
\* under the simulator's sizing rule.
AffordableLot(stock) ==
    IF impl = Engine
    THEN LET slots == maxNewPositions + Len(positions)
             lots == cash \div (slots * stock.price * 10000)
             notional == stock.price * lots * LotSize * 100
         IN  /\ lots >= 1
             /\ notional + (notional * CommissionBp) \div 10000 <= cash
    ELSE LET target == totalValue * MaxPositionPerStockPct
             shares == target \div (stock.price * 10000)
         IN  /\ target > 0
             /\ cash * 100 >= target
             /\ shares > 0
             /\ shares * stock.price * 100 <= cash

\* Realized profit of a sell record: profit_loss (BacktestEngine), the sign
\* of return_rate (runRealBacktest).
Profitable(t) ==
    IF "profit_loss" \in DOMAIN t THEN t.profit_loss > 0 ELSE t.return_rate.num > 0

\* The sale was decided by the take-profit rule.
ViaTakeProfit(t, p) ==
    IF "trade_reason" \in DOMAIN t THEN t.trade_reason = "take_profit"
    ELSE t.return_rate.num * 100 >= config.takeProfit * t.return_rate.den

C9_NoDataDateIsSkipped ==
    [][(date' = date + 1 /\ dayData' = <<>>) =>
          /\ UNCHANGED <<cash, positions, totalValue, max_value, trades,
                         dailyPerformance>>
          /\ pc' = "day"
          /\ pc = "day"]_vars

\* Date 2 had no data while a position bought on date 1 was open, and the
\* run went on to simulate date 3.
C9_Witness ==
    /\ Len(dailyPerformance) = 2
    /\ dailyPerformance[1].trade_date = 1
    /\ dailyPerformance[1].positions_count >= 1
    /\ dailyPerformance[2].trade_date = 3

\* C10: metric computation never yields NaN or Infinity: with no sell trades
\* win rate and average trade P&L are 0; with no simulated day annualized
\* return, Sharpe ratio and average daily return are 0.
Defined(r) == r.den # 0

C10_MetricsAreDefined ==
    pc = "done" =>
        /\ ~(metrics.annual_return \in {"NaN", "Infinity"})
        /\ ~(metrics.sharpe_ratio \in {"NaN", "Infinity"})
        /\ Defined(metrics.total_return)
        /\ Defined(metrics.max_drawdown)
        /\ Defined(metrics.win_rate)
        /\ Sells(trades) = <<>> => metrics.win_rate.num = 0
        /\ dailyPerformance = <<>> =>
              metrics.annual_return = "zero" /\ metrics.sharpe_ratio = "zero"
        /\ impl = Engine =>
              /\ Defined(metrics.avg_trade_return)
              /\ Sells(trades) = <<>> => metrics.avg_trade_return.num = 0
              /\ Defined(stored.performance_metrics.avg_daily_return)
              /\ stored.performance_metrics.avg_daily_return.num = 0
                    \/ dailyPerformance # <<>>

\* Two ratios with positive denominators are the same number.
RatEq(r, s) ==
    /\ ~RatLess(r.num, r.den, s.num, s.den)
    /\ ~RatLess(s.num, s.den, r.num, r.den)

\* (peak - value) / peak of snapshot k, peak being the highest value among
\* snapshots 1..k.
RunningPeakDrawdown(perf, k) ==
    LET peak == MaxOf([j \in 1..k |-> perf[j].portfolio_value], 0)
    IN  [num |-> peak - perf[k].portfolio_value, den |-> peak]

\* The largest running-peak drawdown among snapshots 1..k.
RECURSIVE WorstDrawdown(_, _)
WorstDrawdown(perf, k) ==
    IF k = 0 THEN [num |-> 0, den |-> 1]
    ELSE LET rest == WorstDrawdown(perf, k - 1)
             dd == RunningPeakDrawdown(perf, k)
         IN  IF RatLess(rest.num, rest.den, dd.num, dd.den) THEN dd ELSE rest

\* C11: the reported max drawdown equals the maximum, over all daily
\* snapshots, of (peak - value)/peak, where peak is the highest total value
\* from the start of the run up to and including that snapshot.
C11_MaxDrawdownOverRunningPeak ==
    pc = "done" =>
        RatEq(metrics.max_drawdown,
              WorstDrawdown(dailyPerformance, Len(dailyPerformance)))

\* The estimated Concentration and ProfitRatio of a record, as fractions
\* num/den: the record's own fields (BacktestEngine), the estimator's result
\* (runRealBacktest).
ConcentrationOf(stock) ==
    IF impl = Engine THEN [num |-> stock.chip_concentration, den |-> 1000]
    ELSE [num |-> calculateImprovedChipConcentration(stock)[1], den |-> 400000]

ProfitRatioOf(stock) ==
    IF impl = Engine THEN [num |-> stock.profit_ratio, den |-> 1000]
    ELSE [num |-> calculateImprovedChipConcentration(stock)[2], den |-> 600]

\* Market capitalisation in 1e8 yuan, as a fraction.
MarketCapOf(stock) ==
    IF impl = Engine THEN [num |-> stock.market_cap, den |-> 1]
    ELSE [num |-> stock.circ_mv, den |-> 10000]

\* Fields every filter needs.
FilteredFields ==
    {"price", "pct_chg", "turnover_rate", "volume_ratio", "market_cap",
     "circ_mv", "chip_concentration", "profit_ratio"}

\* The record has every filtered field and satisfies every hard filter under
\* the configured thresholds (thresholds in thousandths for the two ratios).
PassesEveryFilter(stock, cfg) ==
    /\ FilteredFields \subseteq DOMAIN stock
    /\ stock.price <= cfg.maxStockPrice
    /\ MarketCapOf(stock).num <= cfg.maxMarketCap * MarketCapOf(stock).den
    /\ stock.turnover_rate >= cfg.minTurnoverRate
    /\ stock.volume_ratio >= cfg.minVolumeRatio
    /\ stock.pct_chg >= cfg.minDailyGain
    /\ ConcentrationOf(stock).num * 1000
          >= cfg.chipConcentrationThreshold * ConcentrationOf(stock).den
    /\ ProfitRatioOf(stock).num * 1000
          >= cfg.profitRatioThreshold * ProfitRatioOf(stock).den

\* The step that runs the screener on the day's records.
ScreenerRuns ==
    /\ pc = "exit"
    /\ pc' = "buy"
    /\ impl = Real => Len(positions) < config.maxPositions

CodesOf(s) == {s[j].stock_code : j \in DOMAIN s}

\* C12: the screener's output for a day contains exactly the instruments of
\* that day's universe, not already held, that satisfy every hard filter
\* under the run's configured thresholds; a value equal to its threshold
\* passes.
C12_ScreenerAppliesConfiguredFilters ==
    [][ScreenerRuns =>
          CodesOf(candidates') =
              {c \in CodesOf(dayData) :
                  /\ PassesEveryFilter(BarOf(dayData, c), config)
                  /\ ~(c \in HeldCodes(positions))}]_vars

\* The day's records in the opposite order.
Reverse(s) == [j \in DOMAIN s |-> s[Len(s) + 1 - j]]

\* What the screener of the running simulator returns for the records.
ScreenerOutput(data) ==
    IF impl = Engine THEN screenStocks(data, positions, config)
    ELSE runSelectionStrategy(getStockData(data))

\* C13: the screener returns candidates in descending composite-score order
\* and its ranking does not depend on the order of the records in the day's
\* input (ties are broken by instrument code, not by input position).
C13_RankingIgnoresInputOrder ==
    [][ScreenerRuns =>
          /\ \A j \in 1..(Len(candidates') - 1) :
                candidates'[j].score >= candidates'[j + 1].score
          /\ candidates' = ScreenerOutput(Reverse(dayData))]_vars

\* A record with a filtered field missing.
Malformed(stock) == ~(FilteredFields \subseteq DOMAIN stock)

\* The day's records without the malformed ones.
WellFormedOnly(data) == SelectSeq(data, LAMBDA r : ~Malformed(r))

\* C14: a malformed instrument record in a day's universe is dropped: it is
\* never returned as a candidate or bought, and the candidates among the
\* well-formed records of that day are the same as if it were absent.
C14_MalformedRecordIsDropped ==
    [][/\ ScreenerRuns =>
             /\ \A j \in DOMAIN candidates' :
                   ~Malformed(BarOf(dayData, candidates'[j].stock_code))
             /\ candidates' = ScreenerOutput(WellFormedOnly(dayData))
       /\ Appends("buy") =>
             ~Malformed(BarOf(dayData, trades'[Len(trades')].stock_code))]_vars

\* The thresholds a run requires, and their ranges (fractions in thousandths,
\* rates and gains in tenths of a percent, percentages in percent).
RequiredThresholds ==
    {"maxStockPrice", "maxMarketCap", "minTurnoverRate", "minVolumeRatio",
     "minDailyGain", "chipConcentrationThreshold", "profitRatioThreshold",
     "maxPositions", "stopLoss", "takeProfit", "holdingDays", "initialCapital"}

ValidConfig(cfg) ==
    /\ RequiredThresholds \subseteq DOMAIN cfg
    /\ cfg.maxStockPrice > 0
    /\ cfg.maxMarketCap > 0
    /\ cfg.minTurnoverRate >= 0
    /\ cfg.minVolumeRatio >= 0
    /\ cfg.chipConcentrationThreshold \in 0..1000
    /\ cfg.profitRatioThreshold \in 0..1000
    /\ cfg.maxPositions >= 1
    /\ cfg.stopLoss \in 1..100
    /\ cfg.takeProfit >= 1
    /\ cfg.initialCapital > 0

\* C15: a run whose configuration has a missing or out-of-range required
\* threshold fails before simulation starts: no day is processed, no trade or
\* snapshot is produced, and the run is not reported as completed.
C15_InvalidConfigFailsBeforeSimulation ==
    ~ValidConfig(config) =>
        /\ pc = "day"
        /\ dayData = <<>>
        /\ trades = <<>>
        /\ dailyPerformance = <<>>
        /\ metrics = NoMetrics
        /\ stored.status # "completed"

\* The rows of a table that belong to the run.
RowsOfRun(table) == SelectSeq(table, LAMBDA r : r.backtest_id = RunId)

\* C16: when a run fails at run level, it is reported with a failed status
\* and a message, never as completed, and the trades and snapshots produced
\* before the failure are preserved and returned.
C16_FailedRunKeepsProgress ==
    pc = "failed" =>
        /\ "error" \in DOMAIN response
        /\ "details" \in DOMAIN response
        /\ stored.status = "failed"
        /\ \/ /\ RowsOfRun(savedTrades) = TradeRows(trades)
              /\ RowsOfRun(savedPerformance) = PerformanceRows(dailyPerformance)
           \/ /\ "trades" \in DOMAIN response
              /\ "dailyPerformance" \in DOMAIN response

---------------------------------------------------------------------------
\* The dates a run recorded a snapshot for: the trading dates of its range,
\* which the calendar fixes.
TradingDates(perf) == [j \in DOMAIN perf |-> perf[j].trade_date]

\* C17: two runs started with identical configuration (over the same trading
\* dates) produce identical trade lists, daily snapshots and final metrics.
C17_SameConfigurationSameResult ==
    (/\ pc = "done"
     /\ previous.ran
     /\ TradingDates(dailyPerformance) = TradingDates(previous.dailyPerformance)) =>
        /\ trades = previous.trades
        /\ dailyPerformance = previous.dailyPerformance
        /\ metrics = previous.metrics

---------------------------------------------------------------------------
\* r lies in [lo, hi] hundredths.
Within(r, lo, hi) == lo * r.den <= 100 * r.num /\ 100 * r.num <= hi * r.den

\* C18: for all inputs, the boundary inputs included, the heuristic estimator
\* returns a concentration within [0.2, 0.95] and a profit ratio within
\* [0.1, 0.9].
C18_EstimatorStaysInRange ==
    estimate.called =>
        /\ Within(estimate.chipConcentration, 20, 95)
        /\ Within(estimate.profitRatio, 10, 90)

\* generateRealisticChipMetrics(-100, 100, 0): both results are brought up
\* to their lower bounds.
C18_Witness ==
    /\ impl = Engine
    /\ estimate.called
    /\ estimate.pct_chg = -1000
    /\ estimate.turnover_rate = 1000
    /\ estimate.volume_ratio = 0
    /\ RatEq(estimate.chipConcentration, [num |-> 1, den |-> 5])
    /\ RatEq(estimate.profitRatio, [num |-> 1, den |-> 10])

---------------------------------------------------------------------------
\* C19: when turnover_rate = 0 on every day of the lookback window, the
\* decay step is a no-op: before renormalisation each day's distribution
\* equals the previous day's distribution plus that day's injection, no
\* bucket being scaled down.
C19_ZeroTurnoverDecayIsNoOp ==
    [][(/\ chipDistribution.seeded
        /\ chipDistribution' # chipDistribution
        /\ chipDistribution'.zeroTurnover) =>
            /\ chipDistribution'.decayed = chipDistribution.dist
            /\ chipDistribution'.raw =
                   Inject(chipDistribution.dist, chipDistribution'.injection)]_vars

---------------------------------------------------------------------------
\* How many times row r occurs in a list of rows.
Occurrences(rows, r) == Cardinality({j \in DOMAIN rows : rows[j] = r})

\* Two lists hold the same rows, each as often.
SameRows(a, b) ==
    /\ Len(a) = Len(b)
    /\ \A j \in DOMAIN a : Occurrences(a, a[j]) = Occurrences(b, a[j])

Ascending(rows) ==
    \A j, k \in DOMAIN rows : j < k => rows[j].trade_date <= rows[k].trade_date

DetailAnswered == pc = "detail" /\ "success" \in DOMAIN response

\* C20: after run_backtest completed for the run's id, get_backtest_detail
\* of that id answers with the run's summary and with exactly the trades and
\* the daily snapshots the run produced, none missing and none of another
\* run, each list by ascending date.
C20_DetailReturnsTheRun ==
    DetailAnswered =>
        /\ response.backtest.status = "completed"
        /\ response.backtest.metrics = metrics
        /\ SameRows(response.trades, TradeRows(trades))
        /\ SameRows(response.dailyPerformance, PerformanceRows(dailyPerformance))
        /\ Ascending(response.trades)
        /\ Ascending(response.dailyPerformance)

\* The detail of a run that bought on one date and sold on the next, read
\* from tables that also hold another run's rows.
C20_Witness ==
    /\ DetailAnswered
    /\ Len(response.trades) >= 2
    /\ Len(response.dailyPerformance) = 2
    /\ response.trades[1].trade_date < response.trades[Len(response.trades)].trade_date
    /\ \E j \in DOMAIN savedTrades : savedTrades[j].backtest_id = OtherRunId
    /\ \E j \in DOMAIN savedPerformance :
           savedPerformance[j].backtest_id = OtherRunId

---------------------------------------------------------------------------
\* Request "A" is the running one and has finished.
RunAFinished == other.active /\ other.name = "B" /\ Finished(pc)

\* C21: two runs executed concurrently, their steps interleaved at any await,
\* share no mutable state: a run's cash, positions, trade list, snapshots
\* and final metrics are what they are when that run executes alone on the
\* same input data.
C21_ConcurrentRunsAreIsolated ==
    RunAFinished =>
        /\ cash = previous.cash
        /\ positions = previous.positions
        /\ totalValue = previous.totalValue
        /\ trades = previous.trades
        /\ dailyPerformance = previous.dailyPerformance
        /\ metrics = previous.metrics

\* Both requests traded, differently, and one was suspended within a day.
C21_Witness ==
    /\ RunAFinished
    /\ Finished(other.ctx.pc)
    /\ other.midDay
    /\ trades # <<>>
    /\ other.ctx.trades # <<>>
    /\ other.ctx.trades # trades
    /\ other.ctx.cash # cash

---------------------------------------------------------------------------
\* C22: after normalizeWeights is applied to five factor weights with a
\* positive sum, the five stored weights sum to exactly 100 and the
\* displayed weight total equals the actual sum of the stored weights.
C22_NormalizedWeightsSumTo100 ==
    (form.loaded /\ form.normalized) =>
        /\ WeightSumOf(form.weights) = 100
        /\ form.weightSum = WeightSumOf(form.weights)

---------------------------------------------------------------------------
\* The day's pipeline is under way: exits, entries or mark-to-market.
WithinDay == pc \in {"exit", "buy", "record"}

SnapshotDates(perf) == {perf[j].trade_date : j \in DOMAIN perf}

\* Within one date no buy stands before a sell, and dates never go back.
TradeLogOrdered(ts) ==
    \A j, k \in DOMAIN ts :
        j < k =>
            /\ ts[j].trade_date <= ts[k].trade_date
            /\ ts[j].trade_date = ts[k].trade_date =>
                   ~(ts[j].action = "buy" /\ ts[k].action = "sell")

SnapshotsOrdered(perf) ==
    \A j, k \in DOMAIN perf : j < k => perf[j].trade_date < perf[k].trade_date

\* C23: days are processed in strictly increasing date order and each day
\* runs exits, entries, mark-to-market, snapshot: within a day every sell
\* precedes every buy in the trade log, the day's snapshot is recorded after
\* all of that day's trades, exactly one snapshot is recorded per processed
\* day, and no trade of a later day is recorded before the snapshot of an
\* earlier day.
C23_DayPipelineInOrder ==
    [][/\ date' >= date
       /\ (pc = "day" /\ pc' = "exit") =>
              /\ date' > date
              /\ \A d \in SnapshotDates(dailyPerformance) : d < date'
              /\ \A j \in DOMAIN trades :
                     trades[j].trade_date \in SnapshotDates(dailyPerformance)
       /\ trades' # trades =>
              /\ WithinDay
              /\ Len(trades') = Len(trades) + 1
              /\ trades'[Len(trades')].trade_date = date
              /\ date \notin SnapshotDates(dailyPerformance)
              /\ dailyPerformance' = dailyPerformance
              /\ TradeLogOrdered(trades')
       /\ dailyPerformance' # dailyPerformance =>
              /\ pc = "record" /\ pc' = "day"
              /\ Len(dailyPerformance') = Len(dailyPerformance) + 1
              /\ dailyPerformance'[Len(dailyPerformance')].trade_date = date
              /\ SnapshotsOrdered(dailyPerformance')
       /\ (WithinDay /\ pc' = "day") =>
              dailyPerformance' # dailyPerformance]_vars

\* Two processed days: the second one sold and then bought, and both have
\* their snapshot.
C23_Witness ==
    /\ pc = "day"
    /\ Len(dailyPerformance) >= 2
    /\ \E j, k \in DOMAIN trades :
          /\ j < k
          /\ trades[j].action = "sell"
          /\ trades[k].action = "buy"
          /\ trades[j].trade_date = trades[k].trade_date
          /\ trades[j].trade_date \in SnapshotDates(dailyPerformance)

---------------------------------------------------------------------------
\* The buys of the current date already in the trade log.
TodayBuys == SelectSeq(trades, LAMBDA t : t.action = "buy" /\ t.trade_date = date)

\* What a logged buy took out of the cash.
PaidFor(t) ==
    IF impl = Engine THEN EngineTotalCost(t.price, t.quantity)
    ELSE Amount(t.price, t.quantity)

PaidToday == SumOf([j \in DOMAIN TodayBuys |-> PaidFor(TodayBuys[j])])

\* Cash and open positions when the day's entry step began.
EntryCash == cash + PaidToday
EntryOpen == Len(positions) - Len(TodayBuys)

\* floor(target / price) in whole lots, target = cash / slots.
LotsFor(availableCash, slots, price) ==
    (availableCash \div (slots * price * 100 * LotSize)) * LotSize

\* C24: all buys executed on one day use the same target value per slot, the
\* cash available at the start of that day's entry step divided by (slots to
\* fill + positions open at that time); each executed quantity is
\* floor(target / price) rounded down to whole lots of 100, and a candidate
\* whose quantity is below one lot is skipped.
C24_EqualWeightSizing ==
    [][(BuyPending /\ Appends("buy")) =>
          /\ LastTrade'.quantity =
                 LotsFor(EntryCash, maxNewPositions + EntryOpen, LastTrade'.price)
          /\ LastTrade'.quantity >= LotSize]_vars

---------------------------------------------------------------------------
\* The trades of one instrument, in log order.
TradesOfCode(code) == SelectSeq(trades, LAMBDA t : t.stock_code = code)

\* buy, sell, buy, ...: the odd places are buys, the even places sells of
\* the quantity just bought.
Alternates(ts) ==
    \A j \in DOMAIN ts :
        IF j % 2 = 1 THEN ts[j].action = "buy"
        ELSE /\ ts[j].action = "sell"
             /\ ts[j].quantity = ts[j - 1].quantity

\* C25: in the trade log the trades of each instrument alternate buy, sell,
\* buy, ..., starting with a buy, and every sell's quantity equals the
\* quantity of the buy of that instrument right before it.
C25_TradesAlternatePerInstrument ==
    \A code \in Stocks : Alternates(TradesOfCode(code))

\* The value a snapshot's daily return is measured against: the total value
\* of the snapshot before it, the initial capital for the first one.
PreviousValue(perf, j) ==
    IF j = 1 THEN config.initialCapital ELSE perf[j - 1].portfolio_value

DayOverDayReturn(perf, j) ==
    [num |-> perf[j].portfolio_value - PreviousValue(perf, j),
     den |-> PreviousValue(perf, j)]

\* C26: every daily snapshot carries a daily return equal to the change of
\* total value relative to the previous snapshot's total value (to the initial
\* capital on the first day), and a cumulative return relative to the initial
\* capital.
C26_DailyReturnIsDayOverDay ==
    \A j \in DOMAIN dailyPerformance :
        /\ {"daily_return", "cumulative_return"} \subseteq DOMAIN dailyPerformance[j]
        /\ RatEq(dailyPerformance[j].daily_return,
                 DayOverDayReturn(dailyPerformance, j))
        /\ RatEq(dailyPerformance[j].cumulative_return,
                 calculateCumulativeReturn(dailyPerformance[j].portfolio_value,
                                           config))

---------------------------------------------------------------------------
\* amount + commission paid for a buy record, amount - commission received
\* for a sell record.
CashFlow(t) ==
    IF t.action = "buy" THEN 0 - (t.amount + Commission(t.amount))
    ELSE t.amount - Commission(t.amount)

NetCashFlow(ts) == SumOf([j \in DOMAIN ts |-> CashFlow(ts[j])])

RealizedProfit(ts) == SumOf([j \in DOMAIN ts |-> ProfitLossOrZero(ts[j])])

\* The day's mark-to-market has been done: totalValue is the day's value.
MarkedToMarket == pc \notin {"exit", "buy"}

---------------------------------------------------------------------------
\* C28: in the stored tables, whenever the run's row says 'completed', every
\* trade and every daily snapshot the run produced is stored as well, also
\* when one of the writes of the save step fails.
C28_CompletedMeansFullyStored ==
    (impl = Engine /\ stored.status = "completed") =>
        /\ RowsOfRun(savedTrades) = TradeRows(trades)
        /\ RowsOfRun(savedPerformance) = PerformanceRows(dailyPerformance)

---------------------------------------------------------------------------
\* C29: no instrument is both sold and bought on one date: a position closed
\* on a date is not re-opened on that date, and no position is closed on its
\* entry date.
C29_NoSellAndBuySameDay ==
    \A j, k \in DOMAIN trades :
        (/\ trades[j].stock_code = trades[k].stock_code
         /\ trades[j].trade_date = trades[k].trade_date
         /\ trades[j].action = "sell")
            => trades[k].action = "sell" /\ j = k

---------------------------------------------------------------------------
\* Nothing was produced for a date beyond the first DayLimit weekdays.
WithinDayLimit ==
    /\ date <= DayLimit
    /\ \A j \in DOMAIN trades : trades[j].trade_date <= DayLimit
    /\ \A j \in DOMAIN dailyPerformance :
          dailyPerformance[j].trade_date <= DayLimit

\* The statistics annualise over the calendar length of the whole range.
AnnualizedOverRange ==
    pc = "done" =>
        metrics.annual_exponent =
            [num |-> 365, den |-> Max(1, CalendarSpan(config.days))]

\* A step at the head of the loop starts the next iteration, which takes the
\* next date, or leaves the loop for good; no other step moves the date.
LoopAdvances ==
    /\ date' = date \/ (pc = "day" /\ date' = date + 1)
    /\ (pc = "day" /\ date' = date) => pc' = "done"
    /\ pc = "done" => pc' = "done"

\* C30: runRealBacktest ends after at most DayLimit day iterations: every
\* iteration takes the next weekday and none is started after DayLimit of
\* them, so only the first DayLimit weekdays of the range produce trades or
\* snapshots, however long the range; the annualised return is taken over
\* the calendar length of the whole range.
C30_DayLoopIsBounded ==
    [][LoopAdvances /\ WithinDayLimit' /\ AnnualizedOverRange']_vars

\* A range of more than DayLimit weekdays with data on every one of them:
\* the run ended with a trade and a snapshot on weekday DayLimit and none
\* later.
C30_Witness ==
    /\ impl = Real
    /\ pc = "done"
    /\ config.days > DayLimit
    /\ \A d \in (DayLimit + 1)..config.days : tape[d] # <<>>
    /\ \E j \in DOMAIN trades : trades[j].trade_date = DayLimit
    /\ \E j \in DOMAIN dailyPerformance :
          dailyPerformance[j].trade_date = DayLimit
    /\ CalendarSpan(config.days) > CalendarSpan(DayLimit)

============================================================================
